---- MODULE Spec2Model ----
(***************************************************************************)
(* Model of the recommendation service of musicbrainz-app:                 *)
(*   services/recommendation_service.py  (EnhancedRecommendationEngine and *)
(*                                        the /recommendations endpoints)  *)
(*   services/musicbrainz_service.py     (the catalog client)              *)
(* Strings are TLA+ strings; Python's `in`, lower() and split() are        *)
(* computed character by character.  Weights are kept in tenths.           *)
(***************************************************************************)
EXTENDS Integers, Sequences, FiniteSets, TLC

VARIABLES
    \* ---- one GET /recommendations/query request (Spec, SpecTimed)
    pc,              \* "idle" | "searching" | "in_call" | "done"
    req,             \* [query, limit, username]
    user_profile,    \* the row found for username, or None
    search_intent,   \* extract_search_intent(query)
    strategies,      \* unique_strategies[:5]
    idx,             \* the strategy being executed (1-based)
    recommendations, \* the candidates collected so far
    outcomes,        \* history: per executed strategy, what its catalog search did
    intent_calls,    \* history: calls of extract_search_intent in this request
    elapsed,         \* seconds since the request arrived
    response,        \* the HTTP response, or None
    \* ---- the scorer driven on its own (SpecScore)
    s_pc,       \* "ready" | "scored" | "rescored"
    s_in,       \* [query, recording, profile, weight]
    s_out,      \* the scorer's sub-scores, base score and weighted score
    s_prev,     \* s_out before a keyword was added to the candidate
    \* ---- the diversity filter driven on its own (SpecFilter)
    f_pc,       \* "ready" | "filtered"
    f_in,       \* [recs, max_per_artist]
    f_out,      \* the filtered list
    \* ---- the merge of the strategies' candidates driven on its own (SpecMerge)
    m_pc,       \* "ready" | "merged" | "remerged"
    m_in,       \* [query, limit, responses]: one catalog response per strategy
    m_order,    \* the order in which the strategies were executed
    m_out,      \* the final recommendation list
    m_prev,     \* m_out of the execution before
    \* ---- intent extraction and strategy planning driven on their own (SpecIntent)
    i_pc,       \* "ready" | "extracted" | "planned"
    i_query,    \* the query string
    i_intent,   \* extract_search_intent(query)
    i_plan,     \* search_strategies, unique_strategies and the executed prefix
    \* ---- the service with its user_profiles table (SpecProfile)
    db_profiles,        \* user_profiles: username -> row or None
    db_recommendations, \* recommendations: the number of rows committed
    last_post,          \* history: username -> the lists of the last accepted POST
    p_req,              \* the request served last, or None
    p_resp,             \* its HTTP response, or None
    \* ---- the candidate loop of one query request driven on its own (SpecCandidates)
    c_pc,       \* "ready" | "done"
    c_in,       \* [query, limit, profile, responses]: one catalog response per strategy
    c_out,      \* [candidates, final]: the collected candidates and the returned list
    \* ---- the API gateway (SpecGateway)
    g_log,      \* history: per request served, [handler, backend, status]
    \* ---- the shared MusicBrainzService instance and its callers (SpecCatalog)
    mb_now,     \* the time in seconds
    mb_threads, \* per calling thread: where it is in _make_request
    mb_calls,   \* history: per call of a search method, [method, start, http, result]
    \* ---- shared/database.py: wait_for_database and create_tables_safe (SpecDatabase)
    d_schema,   \* the tables of the database
    d_running,  \* "none" | "wait_for_database" | "create_tables_safe"
    d_wait,     \* the running wait_for_database: [max_retries, delay, attempt, slept]
    d_create,   \* the last create_tables_safe: [attempt, slept, phase, logged], or None
    d_result,   \* what the last call returned or raised, or None
    d_runs,     \* history: the calls of create_tables_safe that returned True
    \* ---- concurrent POST /users/{username}/profile requests (SpecConcurrentPosts)
    u_rows,     \* the committed rows of user_profiles: [id, username, favorite_genres, favorite_artists]
    u_req,      \* per request: [pc, username, favorite_genres, favorite_artists, profile, status]
    \* ---- album_service.py: GET /albums/{album_id} (SpecAlbums)
    a_artists,  \* the committed rows of artists: their ids
    a_albums,   \* the committed rows of albums: [id, title, artist_id]
    a_tracks,   \* the committed rows of tracks: [id, album_id, track_number]
    a_resp      \* the answer of the last request: [album_id, fault, status, tracks], or None

reqVars == <<pc, req, user_profile, search_intent, strategies, idx,
             recommendations, outcomes, intent_calls, elapsed, response>>

scoreVars == <<s_pc, s_in, s_out, s_prev>>

filterVars == <<f_pc, f_in, f_out>>

mergeVars == <<m_pc, m_in, m_order, m_out, m_prev>>

intentVars == <<i_pc, i_query, i_intent, i_plan>>

profileVars == <<db_profiles, db_recommendations, last_post, p_req, p_resp>>

candVars == <<c_pc, c_in, c_out>>

\* the state of the parts of the system other than the recommendation requests
gatewayVars == <<g_log>>

catalogVars == <<mb_now, mb_threads, mb_calls>>

databaseVars == <<d_schema, d_running, d_wait, d_create, d_result, d_runs>>

concurrentVars == <<u_rows, u_req>>

albumVars == <<a_artists, a_albums, a_tracks, a_resp>>

sysVars == <<candVars, gatewayVars, catalogVars, databaseVars, concurrentVars, albumVars>>

\* the state of the recommendation requests
engineVars == <<reqVars, scoreVars, filterVars, mergeVars, intentVars, profileVars>>

vars == <<engineVars, sysVars>>

----------------------------------------------------------------------------
(* Python string primitives *)

Min(a, b) == IF a < b THEN a ELSE b

Max(a, b) == IF a > b THEN a ELSE b

CharAt(s, i) == SubSeq(s, i, i)

\* Python: sub in s
Contains(sub, s) ==
    \E i \in 0..(Len(s) - Len(sub)) : SubSeq(s, i + 1, i + Len(sub)) = sub

UpperLetters == "ABCDEFGHIJKLMNOPQRSTUVWXYZ"

LowerLetters == "abcdefghijklmnopqrstuvwxyz"

UpperChars == {CharAt(UpperLetters, i) : i \in 1..26}

LowerOf == [c \in UpperChars |->
              CharAt(LowerLetters, CHOOSE i \in 1..26 : CharAt(UpperLetters, i) = c)]

LowerChar(c) == IF c \in UpperChars THEN LowerOf[c] ELSE c

RECURSIVE Lower(_)
\* Python: s.lower()
Lower(s) ==
    IF s = "" THEN "" ELSE LowerChar(CharAt(s, 1)) \o Lower(SubSeq(s, 2, Len(s)))

Whitespace == {" "}

RECURSIVE SplitFrom(_, _, _)
SplitFrom(s, i, cur) ==
    IF i > Len(s)
    THEN (IF cur = "" THEN <<>> ELSE <<cur>>)
    ELSE IF CharAt(s, i) \in Whitespace
         THEN (IF cur = "" THEN <<>> ELSE <<cur>>) \o SplitFrom(s, i + 1, "")
         ELSE SplitFrom(s, i + 1, cur \o CharAt(s, i))

\* Python: s.split()
Split(s) == SplitFrom(s, 1, "")

RECURSIVE SumSeq(_)
SumSeq(s) == IF Len(s) = 0 THEN 0 ELSE Head(s) + SumSeq(Tail(s))

\* Python dicts: d.get(k, default)
EmptyDict == <<>>

Get(d, k, default) == IF k \in DOMAIN d THEN d[k] ELSE default

None == [none |-> TRUE]

----------------------------------------------------------------------------
(* The keyword tables of EnhancedRecommendationEngine.__init__, in dict order *)

genre_keywords == <<
    [name |-> "rock", keywords |-> <<"rock", "alternative", "indie", "grunge", "punk", "metal", "hard rock", "classic rock">>],
    [name |-> "pop", keywords |-> <<"pop", "dance", "electropop", "synth-pop", "bubblegum", "mainstream">>],
    [name |-> "jazz", keywords |-> <<"jazz", "swing", "bebop", "smooth jazz", "fusion", "bossa nova">>],
    [name |-> "classical", keywords |-> <<"classical", "orchestra", "symphony", "concerto", "opera", "chamber">>],
    [name |-> "electronic", keywords |-> <<"electronic", "edm", "techno", "house", "ambient", "synthesizer", "electro">>],
    [name |-> "hip-hop", keywords |-> <<"hip-hop", "rap", "trap", "gangsta", "conscious", "old school", "boom bap">>],
    [name |-> "country", keywords |-> <<"country", "bluegrass", "folk", "americana", "western", "honky-tonk">>],
    [name |-> "blues", keywords |-> <<"blues", "rhythm and blues", "delta blues", "chicago blues", "electric blues">>],
    [name |-> "reggae", keywords |-> <<"reggae", "ska", "dub", "dancehall", "roots reggae">>],
    [name |-> "r&b", keywords |-> <<"r&b", "soul", "funk", "motown", "neo-soul", "contemporary r&b">>] >>

mood_keywords == <<
    [name |-> "upbeat", keywords |-> <<"upbeat", "energetic", "fast", "dance", "party", "happy", "lively">>],
    [name |-> "relaxing", keywords |-> <<"relaxing", "calm", "chill", "peaceful", "ambient", "slow", "mellow">>],
    [name |-> "emotional", keywords |-> <<"emotional", "sad", "melancholy", "heartbreak", "ballad", "deep">>],
    [name |-> "aggressive", keywords |-> <<"aggressive", "hard", "heavy", "intense", "angry", "powerful">>],
    [name |-> "romantic", keywords |-> <<"romantic", "love", "sweet", "tender", "intimate", "soft">>] >>

\* Python: table.get(name, [])
KeywordsOf(table, name) ==
    IF \E i \in 1..Len(table) : table[i].name = name
    THEN table[CHOOSE i \in 1..Len(table) : table[i].name = name].keywords
    ELSE <<>>

\* any(keyword in text for keyword in keywords)
AnyKeywordIn(keywords, text) ==
    \E k \in 1..Len(keywords) : Contains(keywords[k], text)

\* the names of the table entries one of whose keywords occurs in text, in table order
Detected(table, text) ==
    LET hit == SelectSeq(table, LAMBDA e : AnyKeywordIn(e.keywords, text))
    IN  [i \in 1..Len(hit) |-> hit[i].name]

ConnectorWords == {"by", "from", "artist", "band"}

\* the words after the first connector word that has a word after it
PotentialArtists(words) ==
    LET at == {i \in 1..Len(words) : words[i] \in ConnectorWords /\ i < Len(words)}
    IN  IF at = {} THEN <<>>
        ELSE LET first == CHOOSE i \in at : \A j \in at : i <= j
             IN  SubSeq(words, first + 1, Len(words))

extract_search_intent(query) ==
    LET query_lower == Lower(query)
    IN  [genres |-> Detected(genre_keywords, query_lower),
         moods |-> Detected(mood_keywords, query_lower),
         artists |-> PotentialArtists(Split(query_lower)),
         keywords |-> Split(query_lower),
         original_query |-> query]

----------------------------------------------------------------------------
(* calculate_relevance_score *)

ArtistInfo(recording) ==
    Get(Get(recording, "artist_credit", <<EmptyDict>>)[1], "artist", EmptyDict)

TagNames(recording) ==
    LET tags == Get(recording, "tags", <<>>)
    IN  [i \in 1..Len(tags) |-> Lower(Get(tags[i], "name", ""))]

TitleScore(title, query_words) ==
    SumSeq([i \in 1..Len(query_words) |->
        IF Contains(query_words[i], title)
        THEN (IF query_words[i] = title THEN 15 ELSE 10)
        ELSE 0])

ArtistScore(artist_name, query_words, potential_artists) ==
    SumSeq([i \in 1..Len(query_words) |->
        IF Contains(query_words[i], artist_name)
        THEN (IF Len(query_words[i]) > 3 THEN 20 ELSE 10)
        ELSE 0])
    + SumSeq([i \in 1..Len(potential_artists) |->
        IF Contains(potential_artists[i], artist_name) THEN 25 ELSE 0])

GenreScore(title, artist_name, tag_names, detected_genres) ==
    SumSeq([g \in 1..Len(detected_genres) |->
        LET kws == KeywordsOf(genre_keywords, detected_genres[g])
        IN  (IF \E t \in 1..Len(tag_names) : AnyKeywordIn(kws, tag_names[t])
             THEN 20 ELSE 0)
            + (IF \E k \in 1..Len(kws) :
                    Contains(kws[k], title) \/ Contains(kws[k], artist_name)
               THEN 15 ELSE 0)])

MoodScore(title, artist_name, tag_names, moods) ==
    SumSeq([m \in 1..Len(moods) |->
        LET kws == KeywordsOf(mood_keywords, moods[m])
        IN  (IF \E k \in 1..Len(kws) :
                    Contains(kws[k], title) \/ Contains(kws[k], artist_name)
             THEN 8 ELSE 0)
            + (IF \E t \in 1..Len(tag_names) : AnyKeywordIn(kws, tag_names[t])
               THEN 5 ELSE 0)])

InSeq(x, s) == \E i \in 1..Len(s) : s[i] = x

ProfileScore(artist_info, detected_genres, profile) ==
    IF profile = None THEN 0
    ELSE SumSeq([i \in 1..Len(profile.favorite_genres) |->
            IF InSeq(profile.favorite_genres[i], detected_genres) THEN 5 ELSE 0])
         + (IF InSeq(Get(artist_info, "id", ""), profile.favorite_artists)
            THEN 15 ELSE 0)

\* the five uncapped sub-scores of a recording
SubScores(recording, intent, profile) ==
    LET title == Lower(Get(recording, "title", ""))
        artist_info == ArtistInfo(recording)
        artist_name == Lower(Get(artist_info, "name", ""))
        tag_names == TagNames(recording)
    IN  [title |-> TitleScore(title, intent.keywords),
         artist |-> ArtistScore(artist_name, intent.keywords, intent.artists),
         genre |-> GenreScore(title, artist_name, tag_names, intent.genres),
         mood |-> MoodScore(title, artist_name, tag_names, intent.moods),
         profile |-> ProfileScore(artist_info, intent.genres, profile)]

CapsUncapped(sub) == sub

\* score += min(x_score, cap), one line per sub-score
Caps(sub) ==
    [title |-> Min(sub.title, 25),
     artist |-> Min(sub.artist, 30),
     genre |-> Min(sub.genre, 25),
     mood |-> Min(sub.mood, 10),
     profile |-> Min(sub.profile, 10)]

PenaltyOfTen(sub, score) ==
    IF ~(sub.title > 0 \/ sub.artist > 0 \/ sub.genre > 0)
    THEN Max(score - 10, 0)
    ELSE score

\* if not any([title_score > 0, artist_score > 0, genre_score > 0]): score = max(score - 20, 0)
Penalty(sub, score) ==
    IF ~(sub.title > 0 \/ sub.artist > 0 \/ sub.genre > 0)
    THEN Max(score - 20, 0)
    ELSE score

\* the capped sub-scores summed, the penalty, and min(int(score), max_score)
ScoreFromSub(sub) ==
    LET c == Caps(sub)
    IN  Min(Penalty(sub, c.title + c.artist + c.genre + c.mood + c.profile), 100)

calculate_relevance_score(recording, intent, profile) ==
    ScoreFromSub(SubScores(recording, intent, profile))

\* final_score = int(base_score * strategy['weight']); weight10 is the weight in
\* tenths.  In IEEE doubles 90 * 0.7 = 62.99999999999999, the one product of a
\* base score 0..100 and a weight 1.0, 0.9, 0.8, 0.7 that truncates below the
\* exact value.
FinalScore(base_score, weight10) ==
    IF base_score = 90 /\ weight10 = 7 THEN 62 ELSE (base_score * weight10) \div 10

----------------------------------------------------------------------------
(* EnhancedRecommendationEngine.get_query_recommendations *)

MkRecording(id, title, artist_name, artist_id, tags) ==
    [id |-> id, title |-> title,
     artist_credit |-> <<[artist |-> [name |-> artist_name, id |-> artist_id]]>>,
     tags |-> tags]


\* search_strategies: the direct query, then one search per detected genre,
\* per potential artist and per detected mood
PlannedStrategies(query, intent) ==
    <<[query |-> query, weight |-> 10]>>
    \o [i \in 1..Len(intent.genres) |-> [query |-> "tag:" \o intent.genres[i], weight |-> 9]]
    \o [i \in 1..Len(intent.artists) |->
            [query |-> "artist:\"" \o intent.artists[i] \o "\"", weight |-> 8]]
    \o [i \in 1..Len(intent.moods) |-> [query |-> intent.moods[i], weight |-> 7]]

UniqueStrategiesKeepLast(search_strategies) ==
    SelectSeq([i \in 1..Len(search_strategies) |->
                  [s |-> search_strategies[i],
                   dup |-> \E j \in (i + 1)..Len(search_strategies) :
                              search_strategies[j].query = search_strategies[i].query]],
              LAMBDA e : ~e.dup)

\* "Remove duplicates while preserving order": the first strategy of each query is kept
UniqueStrategies(search_strategies) ==
    SelectSeq([i \in 1..Len(search_strategies) |->
                  [s |-> search_strategies[i],
                   dup |-> \E j \in 1..(i - 1) :
                              search_strategies[j].query = search_strategies[i].query]],
              LAMBDA e : ~e.dup)

\* Python: xs[:n] for n >= 0
Take(xs, n) == SubSeq(xs, 1, Min(n, Len(xs)))

\* unique_strategies[:5]
ExecutedStrategies(query, intent) ==
    LET u == UniqueStrategies(PlannedStrategies(query, intent))
    IN  Take([i \in 1..Len(u) |-> u[i].s], 5)

\* recording['id'] or recording['title'] raises KeyError
RaisesKeyError(recording) ==
    ~("id" \in DOMAIN recording) \/ ~("title" \in DOMAIN recording)

\* the dict appended to recommendations for one recording of one strategy
Candidate(recording, strategy, intent, profile) ==
    [track_id |-> recording.id,
     track_title |-> recording.title,
     artist_id |-> Get(ArtistInfo(recording), "id", ""),
     artist_name |-> Get(ArtistInfo(recording), "name", "Unknown"),
     score |-> FinalScore(calculate_relevance_score(recording, intent, profile),
                          strategy.weight),
     recommendation_type |-> "enhanced_query_based",
     search_strategy |-> strategy.query]

RECURSIVE StrategyCandidates(_, _, _, _)
\* the body of "for recording in recordings": the first recording that raises
\* ends the loop (the except clause is around the whole strategy)
StrategyCandidates(recordings, strategy, intent, profile) ==
    IF Len(recordings) = 0 \/ RaisesKeyError(Head(recordings))
    THEN <<>>
    ELSE <<Candidate(Head(recordings), strategy, intent, profile)>>
         \o StrategyCandidates(Tail(recordings), strategy, intent, profile)

PositionOf(track_id, recs) ==
    IF \E i \in 1..Len(recs) : recs[i].track_id = track_id
    THEN CHOOSE i \in 1..Len(recs) : recs[i].track_id = track_id
    ELSE 0

DedupeStepKeepFirst(kept, rec) ==
    IF PositionOf(rec.track_id, kept) = 0 THEN Append(kept, rec) ELSE kept

\* if track_id not in track_scores or rec['score'] > track_scores[track_id]['score']:
\*     track_scores[track_id] = rec
\* (a dict keeps a key at the place of its first insertion)
DedupeStep(kept, rec) ==
    LET at == PositionOf(rec.track_id, kept)
    IN  IF at = 0 THEN Append(kept, rec)
        ELSE IF rec.score > kept[at].score THEN [kept EXCEPT ![at] = rec]
        ELSE kept

RECURSIVE DedupeFrom(_, _)
DedupeFrom(kept, recs) ==
    IF Len(recs) = 0 THEN kept ELSE DedupeFrom(DedupeStep(kept, Head(recs)), Tail(recs))

\* list(track_scores.values())
Dedupe(recs) == DedupeFrom(<<>>, recs)

\* rec put behind the last element whose score is >= its own
InsertByScore(sorted, rec) ==
    LET n == Cardinality({i \in 1..Len(sorted) : sorted[i].score >= rec.score})
    IN  SubSeq(sorted, 1, n) \o <<rec>> \o SubSeq(sorted, n + 1, Len(sorted))

RECURSIVE SortFrom(_, _)
SortFrom(sorted, recs) ==
    IF Len(recs) = 0 THEN sorted ELSE SortFrom(InsertByScore(sorted, Head(recs)), Tail(recs))

\* recs.sort(key=lambda x: x['score'], reverse=True): stable, equal scores keep their order
SortByScoreDesc(recs) == SortFrom(<<>>, recs)

TruncateNot(recs, limit) == recs

\* final_recommendations[:limit]
Truncate(recs, limit) == Take(recs, limit)

\* lines 311-322
FinalRecommendations(recs, limit) == Truncate(SortByScoreDesc(Dedupe(recs)), limit)

----------------------------------------------------------------------------
(* The environment of one query request *)

MaxLimit == 3

MaxResp == 2

MaxClock == 10

Limits == 1..MaxLimit

Queries == {"", "  ", "love", "Rock"}

Usernames == {"", "guest", "alice"}

\* the requests served: every short query at every limit for every user, and a
\* query of three strategies at limit 1
Requests ==
    [query : Queries, limit : Limits, username : Usernames]
    \cup {[query |-> "Jazz by Miles", limit |-> 1, username |-> ""]}

\* the user_profiles table
StoredProfiles ==
    {[username |-> "alice", favorite_genres |-> <<"rock", "jazz">>, favorite_artists |-> <<"a1">>]}

\* db.query(UserProfile).filter(UserProfile.username == username).first()
FirstProfile(username) ==
    IF \E p \in StoredProfiles : p.username = username
    THEN CHOOSE p \in StoredProfiles : p.username = username
    ELSE None

\* recordings the catalog may report; the same track may be reported with and without tags
CatalogRecordings ==
    {MkRecording("t1", "Love", "Queen", "a1", <<[name |-> "rock"]>>),
     MkRecording("t1", "Love", "Queen", "a1", <<>>),
     MkRecording("t2", "Rock You", "QUEEN", "a1", <<>>),
     MkRecording("t3", "Rock Love", "queen", "a1", <<>>)}

\* what a search may answer: at most n recordings, no recording twice
CatalogResponses(n) ==
    UNION {{r \in [1..k -> CatalogRecordings] : \A i, j \in 1..k : r[i] = r[j] => i = j} :
            k \in 0..Min(n, MaxResp)}

ReqInit ==
    /\ pc = "idle"
    /\ req = None
    /\ user_profile = None
    /\ search_intent = None
    /\ strategies = <<>>
    /\ idx = 0
    /\ recommendations = <<>>
    /\ outcomes = <<>>
    /\ intent_calls = 0
    /\ elapsed = 0
    /\ response = None

\* the endpoint up to the engine's search loop: the profile lookup, the intent,
\* the strategies
QueryRequest(query, limit, username) ==
    /\ pc = "idle"
    /\ req' = [query |-> query, limit |-> limit, username |-> username]
    /\ user_profile' = IF username # "" /\ username # "guest"
                       THEN FirstProfile(username) ELSE None
    /\ search_intent' = extract_search_intent(query)
    /\ strategies' = ExecutedStrategies(query, search_intent')
    /\ idx' = 1
    /\ recommendations' = <<>>
    /\ outcomes' = <<>>
    /\ intent_calls' = 1
    /\ elapsed' = 0
    /\ response' = None
    /\ pc' = "searching"
    /\ UNCHANGED <<scoreVars, filterVars, mergeVars, intentVars, profileVars, sysVars>>

\* the profile lookup raises (the database is unreachable): except Exception -> 500
QueryRequestDbError(query, limit, username) ==
    /\ pc = "idle"
    /\ username # "" /\ username # "guest"
    /\ req' = [query |-> query, limit |-> limit, username |-> username]
    /\ response' = [status |-> 500]
    /\ pc' = "done"
    /\ UNCHANGED <<user_profile, search_intent, strategies, idx, recommendations,
                   outcomes, intent_calls, elapsed>>
    /\ UNCHANGED <<scoreVars, filterVars, mergeVars, intentVars, profileVars, sysVars>>

\* search_recordings with an empty query: "if not query_parts: return []", no HTTP request
SearchWithoutRequest ==
    /\ pc = "searching" /\ idx <= Len(strategies)
    /\ strategies[idx].query = ""
    /\ outcomes' = Append(outcomes, [kind |-> "no_request", recordings |-> <<>>])
    /\ idx' = idx + 1
    /\ UNCHANGED <<pc, req, user_profile, search_intent, strategies, recommendations,
                   intent_calls, elapsed, response>>
    /\ UNCHANGED <<scoreVars, filterVars, mergeVars, intentVars, profileVars, sysVars>>

\* search_recordings -> _make_request -> requests.get(url, headers, params): no timeout
IssueSearch ==
    /\ pc = "searching" /\ idx <= Len(strategies)
    /\ strategies[idx].query # ""
    /\ pc' = "in_call"
    /\ UNCHANGED <<req, user_profile, search_intent, strategies, idx, recommendations,
                   outcomes, intent_calls, elapsed, response>>
    /\ UNCHANGED <<scoreVars, filterVars, mergeVars, intentVars, profileVars, sysVars>>

\* the catalog answers 200: sleep(rate_limit_delay), then every recording is scored
CatalogOK ==
    /\ pc = "in_call"
    /\ \E recordings \in CatalogResponses(Min(req.limit * 2, 25)) :
        /\ recommendations' = recommendations \o
              StrategyCandidates(recordings, strategies[idx], search_intent, user_profile)
        /\ outcomes' = Append(outcomes, [kind |-> "ok", recordings |-> recordings])
    /\ elapsed' = Min(elapsed + 1, MaxClock)
    /\ idx' = idx + 1
    /\ pc' = "searching"
    /\ UNCHANGED <<req, user_profile, search_intent, strategies, intent_calls, response>>
    /\ UNCHANGED <<scoreVars, filterVars, mergeVars, intentVars, profileVars, sysVars>>

\* requests.RequestException (error status, refused connection, a timeout the
\* network stack reports): _make_request returns None, search_recordings []
CatalogRequestException ==
    /\ pc = "in_call"
    /\ outcomes' = Append(outcomes, [kind |-> "request_exception", recordings |-> <<>>])
    /\ idx' = idx + 1
    /\ pc' = "searching"
    /\ UNCHANGED <<req, user_profile, search_intent, strategies, recommendations,
                   intent_calls, elapsed, response>>
    /\ UNCHANGED <<scoreVars, filterVars, mergeVars, intentVars, profileVars, sysVars>>

CatalogRaisesPropagates ==
    /\ pc = "in_call"
    /\ outcomes' = Append(outcomes, [kind |-> "raised", recordings |-> <<>>])
    /\ response' = [status |-> 500]
    /\ pc' = "done"
    /\ UNCHANGED <<req, user_profile, search_intent, strategies, idx, recommendations,
                   intent_calls, elapsed>>
    /\ UNCHANGED <<scoreVars, filterVars, mergeVars, intentVars, profileVars, sysVars>>

\* the search raises something else (a body that is no JSON object): the
\* strategy's "except Exception" logs it and the loop goes on
CatalogRaises ==
    /\ pc = "in_call"
    /\ outcomes' = Append(outcomes, [kind |-> "raised", recordings |-> <<>>])
    /\ elapsed' = Min(elapsed + 1, MaxClock)
    /\ idx' = idx + 1
    /\ pc' = "searching"
    /\ UNCHANGED <<req, user_profile, search_intent, strategies, recommendations,
                   intent_calls, response>>
    /\ UNCHANGED <<scoreVars, filterVars, mergeVars, intentVars, profileVars, sysVars>>

\* a second passes while requests.get waits for the catalog
Tick ==
    /\ pc = "in_call"
    /\ elapsed < MaxClock
    /\ elapsed' = elapsed + 1
    /\ UNCHANGED <<pc, req, user_profile, search_intent, strategies, idx, recommendations,
                   outcomes, intent_calls, response>>
    /\ UNCHANGED <<scoreVars, filterVars, mergeVars, intentVars, profileVars, sysVars>>

\* after the last strategy: dedupe, sort, truncate; the endpoint answers 200
Respond ==
    /\ pc = "searching" /\ idx > Len(strategies)
    /\ response' = [status |-> 200,
                    recommendations |-> FinalRecommendations(recommendations, req.limit),
                    query_analyzed |-> extract_search_intent(req.query)]
    /\ intent_calls' = intent_calls + 1
    /\ pc' = "done"
    /\ UNCHANGED <<req, user_profile, search_intent, strategies, idx, recommendations,
                   outcomes, elapsed>>
    /\ UNCHANGED <<scoreVars, filterVars, mergeVars, intentVars, profileVars, sysVars>>

ScoreOff ==
    /\ s_pc = "off"
    /\ s_in = None
    /\ s_out = None
    /\ s_prev = None

FilterOff ==
    /\ f_pc = "off"
    /\ f_in = None
    /\ f_out = <<>>

MergeOff ==
    /\ m_pc = "off"
    /\ m_in = None
    /\ m_order = <<>>
    /\ m_out = <<>>
    /\ m_prev = <<>>

IntentOff ==
    /\ i_pc = "off"
    /\ i_query = ""
    /\ i_intent = None
    /\ i_plan = None

\* the usernames of the profile requests
ProfileUsers == {"alice", "bob"}

\* user_profiles and recommendations are empty tables, nothing was served
ProfileOff ==
    /\ db_profiles = [u \in ProfileUsers |-> None]
    /\ db_recommendations = 0
    /\ last_post = [u \in ProfileUsers |-> None]
    /\ p_req = None
    /\ p_resp = None

CandOff ==
    /\ c_pc = "off"
    /\ c_in = None
    /\ c_out = None

GatewayOff == g_log = <<>>

CatalogOff ==
    /\ mb_now = 0
    /\ mb_threads = <<>>
    /\ mb_calls = <<>>

DatabaseOff ==
    /\ d_schema = {}
    /\ d_running = "off"
    /\ d_wait = None
    /\ d_create = None
    /\ d_result = None
    /\ d_runs = 0

ConcurrentOff ==
    /\ u_rows = {}
    /\ u_req = <<>>

AlbumOff ==
    /\ a_artists = {}
    /\ a_albums = {}
    /\ a_tracks = {}
    /\ a_resp = <<>>

SysOff ==
    /\ CandOff /\ GatewayOff /\ CatalogOff /\ DatabaseOff
    /\ ConcurrentOff /\ AlbumOff

Init == ReqInit /\ ScoreOff /\ FilterOff /\ MergeOff /\ IntentOff /\ ProfileOff /\ SysOff

Next ==
    \/ \E r \in Requests : QueryRequest(r.query, r.limit, r.username)
    \/ \E r \in Requests : QueryRequestDbError(r.query, r.limit, r.username)
    \/ SearchWithoutRequest
    \/ IssueSearch
    \/ CatalogOK
    \/ CatalogRequestException
    \/ CatalogRaises
    \/ Respond

Spec == Init /\ [][Next]_vars

\* the same request with the clock running while a catalog call is in flight
TimedQueries == {"love"}

TimedNext ==
    \/ \E q \in TimedQueries, l \in Limits : QueryRequest(q, l, "")
    \/ IssueSearch
    \/ CatalogOK
    \/ CatalogRequestException
    \/ CatalogRaises
    \/ Tick
    \/ Respond

SpecTimed == Init /\ [][TimedNext]_vars

----------------------------------------------------------------------------
(* The scorer on its own: inputs drawn from bounded sets *)

ScoreQueries == {"love", "rock by queen", "sad rock rock love", "xyz"}

ScoreTitles == {"", "Love", "rock", "Sad Rock Love"}

ScoreArtists == {"", "Queen", "Sad Rockers"}

ScoreTags == {<<>>, <<[name |-> "Rock"]>>, <<[name |-> "sad pop"], [name |-> "x"]>>}

ScoreProfiles ==
    {None,
     [username |-> "alice", favorite_genres |-> <<"rock", "pop">>, favorite_artists |-> <<"a1">>],
     [username |-> "bob", favorite_genres |-> <<>>, favorite_artists |-> <<"a1">>]}

Weights10 == {10, 9, 8, 7}

ScoreWith(sub, weight10) ==
    [sub |-> sub, capped |-> Caps(sub), base |-> ScoreFromSub(sub),
     final |-> FinalScore(ScoreFromSub(sub), weight10)]

ScoreOf(in) ==
    ScoreWith(SubScores(in.recording, extract_search_intent(in.query), in.profile),
              in.weight)

NoScore == [none |-> TRUE]

ScoreInit ==
    /\ s_pc = "ready"
    /\ s_in \in [query : ScoreQueries,
                 recording : {MkRecording("t1", t, a, "a1", g) :
                                t \in ScoreTitles, a \in ScoreArtists, g \in ScoreTags},
                 profile : ScoreProfiles,
                 weight : Weights10]
    /\ s_out = NoScore
    /\ s_prev = NoScore
    /\ ReqInit
    /\ FilterOff
    /\ MergeOff
    /\ IntentOff
    /\ ProfileOff
    /\ SysOff

Score ==
    /\ s_pc = "ready"
    /\ s_out' = ScoreOf(s_in)
    /\ s_pc' = "scored"
    /\ UNCHANGED <<s_in, s_prev>>
    /\ UNCHANGED <<reqVars, filterVars, mergeVars, intentVars, profileVars, sysVars>>

\* text with one more occurrence of word
AddWord(text, word) == IF text = "" THEN word ELSE text \o " " \o word

\* the candidate changes only by a query keyword added to its title; it is rescored
AddKeywordToTitle ==
    /\ s_pc = "scored"
    /\ \E k \in 1..Len(extract_search_intent(s_in.query).keywords) :
        LET word == extract_search_intent(s_in.query).keywords[k]
            rec == [s_in.recording EXCEPT !.title = AddWord(Lower(@), word)]
        IN  /\ s_in' = [s_in EXCEPT !.recording = rec]
            /\ s_out' = ScoreOf(s_in')
    /\ s_prev' = s_out
    /\ s_pc' = "rescored"
    /\ UNCHANGED <<reqVars, filterVars, mergeVars, intentVars, profileVars, sysVars>>

\* the candidate changes only by a query keyword added to its artist name
AddKeywordToArtist ==
    /\ s_pc = "scored"
    /\ \E k \in 1..Len(extract_search_intent(s_in.query).keywords) :
        LET word == extract_search_intent(s_in.query).keywords[k]
            rec == [s_in.recording EXCEPT
                        !.artist_credit[1].artist.name = AddWord(Lower(@), word)]
        IN  /\ s_in' = [s_in EXCEPT !.recording = rec]
            /\ s_out' = ScoreOf(s_in')
    /\ s_prev' = s_out
    /\ s_pc' = "rescored"
    /\ UNCHANGED <<reqVars, filterVars, mergeVars, intentVars, profileVars, sysVars>>

ScoreNext == Score \/ AddKeywordToTitle \/ AddKeywordToArtist

SpecScore == ScoreInit /\ [][ScoreNext]_vars

----------------------------------------------------------------------------
(* The diversity filter, ensure_artist_diversity(recs, max_per_artist):     *)
(* recommendation_service.py as the tests import it; specified in 4.5      *)

\* the filter's pass over the sorted list: kept so far, the rest
RECURSIVE DiversityPass(_, _, _)
DiversityPass(kept, rest, max_per_artist) ==
    IF Len(rest) = 0 THEN kept
    ELSE LET rec == Head(rest)
             count == Cardinality({i \in 1..Len(kept) :
                          Lower(kept[i].artist_name) = Lower(rec.artist_name)})
         IN  DiversityPass(IF count < max_per_artist THEN Append(kept, rec) ELSE kept,
                           Tail(rest), max_per_artist)

RECURSIVE DiversityPassCaseSensitive(_, _, _)
DiversityPassCaseSensitive(kept, rest, max_per_artist) ==
    IF Len(rest) = 0 THEN kept
    ELSE LET rec == Head(rest)
             count == Cardinality({i \in 1..Len(kept) :
                          kept[i].artist_name = rec.artist_name})
         IN  DiversityPassCaseSensitive(
                 IF count < max_per_artist THEN Append(kept, rec) ELSE kept,
                 Tail(rest), max_per_artist)

ensure_artist_diversity_case_sensitive(recs, max_per_artist) ==
    DiversityPassCaseSensitive(<<>>, SortByScoreDesc(recs), max_per_artist)

ensure_artist_diversity(recs, max_per_artist) ==
    DiversityPass(<<>>, SortByScoreDesc(recs), max_per_artist)

MaxFilterLen == 3

MaxPerArtist == 2

FilterArtists == {"Same Artist", "SAME ARTIST", "Artist 0"}

FilterScores == {90, 85, 80}

\* lists of at most MaxFilterLen recommendations, track ids by position
FilterInputs ==
    UNION {{[i \in 1..n |-> [track_id |-> "track-" \o ToString(i),
                              artist_name |-> c[i][1], score |-> c[i][2]]] :
                c \in [1..n -> FilterArtists \X FilterScores]} :
            n \in 0..MaxFilterLen}

FilterInit ==
    /\ f_pc = "ready"
    /\ f_in \in [recs : FilterInputs, max_per_artist : 1..MaxPerArtist]
    /\ f_out = <<>>
    /\ ReqInit
    /\ ScoreOff
    /\ MergeOff
    /\ IntentOff
    /\ ProfileOff
    /\ SysOff

ApplyFilter ==
    /\ f_pc = "ready"
    /\ f_out' = ensure_artist_diversity(f_in.recs, f_in.max_per_artist)
    /\ f_pc' = "filtered"
    /\ UNCHANGED <<f_in, reqVars, scoreVars, mergeVars, intentVars, profileVars, sysVars>>

SpecFilter == FilterInit /\ [][ApplyFilter]_vars

----------------------------------------------------------------------------
(* The execution loop and the merge of get_query_recommendations driven on *)
(* their own: every strategy has its catalog response, and the loop of     *)
(* lines 279-306 is run over the strategies in a given order.              *)

\* a second track that matches no query of MergeQueries
MergeRecordings ==
    CatalogRecordings \cup {MkRecording("t4", "Blue", "Abba", "a2", <<>>)}

MergeResponses ==
    UNION {{r \in [1..k -> MergeRecordings] : \A i, j \in 1..k : r[i].id = r[j].id => i = j} :
            k \in 0..MaxResp}

MergeQueries == {"love", "Rock"}

\* the orders in which n strategies can be executed
Orders(n) == {o \in [1..n -> 1..n] : \A i, j \in 1..n : o[i] = o[j] => i = j}

\* recommendations after the loop ran the strategies order[from], order[from + 1], ...
RECURSIVE CollectFrom(_, _, _, _, _, _)
CollectFrom(from, order, strats, responses, intent, profile) ==
    IF from > Len(order) THEN <<>>
    ELSE StrategyCandidates(responses[order[from]], strats[order[from]], intent, profile)
         \o CollectFrom(from + 1, order, strats, responses, intent, profile)

\* get_query_recommendations(query, limit) with the strategies run in the given order
QueryRecommendationsInOrder(in, order) ==
    LET intent == extract_search_intent(in.query)
        strats == ExecutedStrategies(in.query, intent)
    IN  FinalRecommendations(CollectFrom(1, order, strats, in.responses, intent, None),
                             in.limit)

StrategyCount(query) == Len(ExecutedStrategies(query, extract_search_intent(query)))

MergeInit ==
    /\ m_pc = "ready"
    /\ \E q \in MergeQueries, l \in 1..MaxLimit :
         \E rs \in [1..StrategyCount(q) -> MergeResponses] :
            m_in = [query |-> q, limit |-> l, responses |-> rs]
    /\ m_order = <<>>
    /\ m_out = <<>>
    /\ m_prev = <<>>
    /\ ReqInit
    /\ ScoreOff
    /\ FilterOff
    /\ IntentOff
    /\ ProfileOff
    /\ SysOff

\* the request is served with the strategies executed in some order
Execute ==
    /\ m_pc = "ready"
    /\ \E order \in Orders(StrategyCount(m_in.query)) :
        /\ m_order' = order
        /\ m_out' = QueryRecommendationsInOrder(m_in, order)
    /\ m_pc' = "merged"
    /\ UNCHANGED <<m_in, m_prev>>
    /\ UNCHANGED <<reqVars, scoreVars, filterVars, intentVars, profileVars, sysVars>>

\* the same request with the same catalog responses, executed in another order
ExecuteAgain ==
    /\ m_pc = "merged"
    /\ \E order \in Orders(StrategyCount(m_in.query)) :
        /\ order # m_order
        /\ m_order' = order
        /\ m_out' = QueryRecommendationsInOrder(m_in, order)
    /\ m_prev' = m_out
    /\ m_pc' = "remerged"
    /\ UNCHANGED m_in
    /\ UNCHANGED <<reqVars, scoreVars, filterVars, intentVars, profileVars, sysVars>>

MergeNext == Execute \/ ExecuteAgain

SpecMerge == MergeInit /\ [][MergeNext]_vars

----------------------------------------------------------------------------
(* The loop over the recordings of each strategy (lines 280-306), the merge *)
(* and the truncation, driven on their own with recordings that lack a     *)
(* field and recordings that match the query on nothing.                   *)

\* recordings of a catalog response: a match, a recording that matches on mood
\* and profile only, one without "id" and one without "title"
CandRecordings ==
    {MkRecording("t1", "Love", "Queen", "a1", <<>>),
     MkRecording("t4", "Sweet Blue", "Abba", "a2", <<[name |-> "romantic"]>>),
     [title |-> "Untitled Love",
      artist_credit |-> <<[artist |-> [name |-> "Queen", id |-> "a1"]]>>],
     [id |-> "t5",
      artist_credit |-> <<[artist |-> [name |-> "Abba", id |-> "a2"]]>>]}

MaxCand == 3

CandResponses ==
    UNION {{r \in [1..k -> CandRecordings] : \A i, j \in 1..k : r[i] = r[j] => i = j} :
            k \in 0..MaxCand}

CandQueries == {"love"}

CandProfiles ==
    {None,
     [username |-> "alice", favorite_genres |-> <<"pop">>, favorite_artists |-> <<"a2">>]}

CandInit ==
    /\ c_pc = "ready"
    /\ \E q \in CandQueries, l \in {1, MaxLimit}, pr \in CandProfiles :
         \E rs \in [1..StrategyCount(q) -> CandResponses] :
            c_in = [query |-> q, limit |-> l, profile |-> pr, responses |-> rs]
    /\ c_out = None
    /\ ReqInit
    /\ ScoreOff
    /\ FilterOff
    /\ MergeOff
    /\ IntentOff
    /\ ProfileOff
    /\ GatewayOff
    /\ CatalogOff
    /\ DatabaseOff
    /\ ConcurrentOff
    /\ AlbumOff

\* get_query_recommendations(query, limit, user_profile): the strategies in their
\* planned order, then the merge, the sort and the truncation
Recommend ==
    /\ c_pc = "ready"
    /\ LET intent == extract_search_intent(c_in.query)
           strats == ExecutedStrategies(c_in.query, intent)
           recs == CollectFrom(1, [i \in 1..Len(strats) |-> i], strats, c_in.responses,
                               intent, c_in.profile)
       IN  c_out' = [candidates |-> recs,
                     final |-> FinalRecommendations(recs, c_in.limit)]
    /\ c_pc' = "done"
    /\ UNCHANGED c_in
    /\ UNCHANGED <<engineVars, gatewayVars, catalogVars, databaseVars, concurrentVars, albumVars>>

SpecCandidates == CandInit /\ [][Recommend]_vars

----------------------------------------------------------------------------
(* The API gateway, gateway/main.py: each handler forwards the request to  *)
(* its backend service inside one try block.                               *)

\* what the call of the backend does: it answers with a status, the answer's
\* body is no JSON, or httpx raises
BackendOutcomes ==
    {[kind |-> "status", status |-> c] : c \in {200, 400, 404, 422, 500}}
    \cup {[kind |-> "bad_body"], [kind |-> "timeout"], [kind |-> "connect_error"]}

\* the body of the try block: what it returns or raises
TryBlock(backend) ==
    IF backend.kind = "timeout" THEN [raises |-> "TimeoutException"]
    ELSE IF backend.kind = "connect_error" THEN [raises |-> "ConnectError"]
    ELSE IF backend.kind = "bad_body" THEN [raises |-> "JSONDecodeError"]
    ELSE IF backend.status = 200 THEN [returns |-> 200]
    ELSE [raises |-> "HTTPException", status_code |-> backend.status]

\* the except clauses, in their order: httpx.TimeoutException, then Exception,
\* of which ConnectError, JSONDecodeError and HTTPException are subclasses
ExceptClauses(result) ==
    IF "returns" \in DOMAIN result THEN result.returns
    ELSE IF result.raises = "TimeoutException" THEN 504
    ELSE 503

\* the same with "except httpx.ConnectError" before "except Exception"
ExceptClausesWithConnectError(result) ==
    IF "returns" \in DOMAIN result THEN result.returns
    ELSE IF result.raises = "TimeoutException" THEN 504
    ELSE IF result.raises = "ConnectError" THEN 503
    ELSE 503

\* the number of requests the gateway serves
MaxGatewayLog == 2

Logged(handler, backend, status) ==
    Append(g_log, [handler |-> handler, backend |-> backend, status |-> status])

\* GET /api/artists/{artist_id}
get_artist(backend) ==
    /\ Len(g_log) < MaxGatewayLog
    /\ g_log' = Logged("get_artist", backend, ExceptClauses(TryBlock(backend)))
    /\ UNCHANGED <<engineVars, candVars, catalogVars, databaseVars, concurrentVars, albumVars>>

\* GET /api/recommendations/query
get_query_recommendations(backend) ==
    /\ Len(g_log) < MaxGatewayLog
    /\ g_log' = Logged("get_query_recommendations", backend,
                       ExceptClausesWithConnectError(TryBlock(backend)))
    /\ UNCHANGED <<engineVars, candVars, catalogVars, databaseVars, concurrentVars, albumVars>>

\* GET /api/recommendations/profile/{username}
get_profile_recommendations(backend) ==
    /\ Len(g_log) < MaxGatewayLog
    /\ g_log' = Logged("get_profile_recommendations", backend,
                       ExceptClauses(TryBlock(backend)))
    /\ UNCHANGED <<engineVars, candVars, catalogVars, databaseVars, concurrentVars, albumVars>>

GatewayInit ==
    /\ GatewayOff
    /\ ReqInit
    /\ ScoreOff
    /\ FilterOff
    /\ MergeOff
    /\ IntentOff
    /\ ProfileOff
    /\ CandOff
    /\ CatalogOff
    /\ DatabaseOff
    /\ ConcurrentOff
    /\ AlbumOff

GatewayNext ==
    \/ \E b \in BackendOutcomes : get_artist(b)
    \/ \E b \in BackendOutcomes : get_query_recommendations(b)
    \/ \E b \in BackendOutcomes : get_profile_recommendations(b)

SpecGateway == GatewayInit /\ [][GatewayNext]_vars

----------------------------------------------------------------------------
(* MusicBrainzService, services/musicbrainz_service.py: one instance is    *)
(* shared by the threads that serve the requests of a service.             *)

\* self.rate_limit_delay, in seconds
rate_limit_delay == 1

MaxNow == 1

MaxCalls == 2

Threads == {1, 2}

\* the search methods, with the endpoint they request and the key they read
SearchMethods ==
    {[name |-> "search_artists", endpoint |-> "artist", key |-> "artists"],
     [name |-> "search_recordings", endpoint |-> "recording", key |-> "recordings"],
     [name |-> "search_releases", endpoint |-> "release", key |-> "releases"],
     [name |-> "get_artist_recordings", endpoint |-> "recording", key |-> "recordings"]}

\* what requests.get and raise_for_status do: a JSON object with the items under
\* the endpoint's key or without it, a body that is no JSON, or a RequestException
HttpOutcomes ==
    {[kind |-> "ok", items |-> <<"x1", "x2">>, keyed |-> TRUE],
     [kind |-> "ok", items |-> <<>>, keyed |-> FALSE],
     [kind |-> "bad_json"],
     [kind |-> "timeout"],
     [kind |-> "status_429"]}

RequestExceptions == {"timeout", "status_429"}

\* response.json() of an answer 200
JsonBody(method, http) ==
    IF http.keyed THEN (method.key :> http.items) ELSE EmptyDict

\* "return result.get(key, []) if result else []"; result is None or a dict
ResultListRaising(method, result) ==
    IF result = None THEN [raises |-> "RequestException"]
    ELSE [returns |-> Get(result, method.key, <<>>)]

ResultList(method, result) ==
    IF result = None \/ result = EmptyDict THEN [returns |-> <<>>]
    ELSE [returns |-> Get(result, method.key, <<>>)]

Idle == [pc |-> "idle"]

\* a thread calls a search method: requests.get is sent
Call(t, method) ==
    /\ mb_threads[t] = Idle
    /\ Len(mb_calls) < MaxCalls
    /\ mb_calls' = Append(mb_calls, [method |-> method.name, start |-> mb_now,
                                     http |-> None, result |-> None])
    /\ mb_threads' = [mb_threads EXCEPT ![t] =
                        [pc |-> "in_request", method |-> method, call |-> Len(mb_calls')]]
    /\ UNCHANGED mb_now
    /\ UNCHANGED <<engineVars, candVars, gatewayVars, databaseVars, concurrentVars, albumVars>>

\* search_recordings and search_releases without query parts: "return []", no request
CallWithoutQuery(t, method) ==
    /\ mb_threads[t] = Idle
    /\ Len(mb_calls) < MaxCalls
    /\ method.name \in {"search_recordings", "search_releases"}
    /\ mb_calls' = Append(mb_calls, [method |-> method.name, start |-> -1,
                                     http |-> [kind |-> "no_request"],
                                     result |-> [returns |-> <<>>]])
    /\ UNCHANGED <<mb_now, mb_threads>>
    /\ UNCHANGED <<engineVars, candVars, gatewayVars, databaseVars, concurrentVars, albumVars>>

\* requests.get or raise_for_status raises a RequestException: _make_request
\* returns None at once
RequestFails(t, kind) ==
    /\ mb_threads[t].pc = "in_request"
    /\ mb_calls' = [mb_calls EXCEPT ![mb_threads[t].call] =
                      [@ EXCEPT !.http = [kind |-> kind],
                                !.result = ResultList(mb_threads[t].method, None)]]
    /\ mb_threads' = [mb_threads EXCEPT ![t] = Idle]
    /\ UNCHANGED mb_now
    /\ UNCHANGED <<engineVars, candVars, gatewayVars, databaseVars, concurrentVars, albumVars>>

\* the answer is 200: time.sleep(self.rate_limit_delay) begins
RequestSucceeds(t, http) ==
    /\ mb_threads[t].pc = "in_request"
    /\ http.kind \in {"ok", "bad_json"}
    /\ mb_calls' = [mb_calls EXCEPT ![mb_threads[t].call].http = http]
    /\ mb_threads' = [mb_threads EXCEPT ![t] =
                        [pc |-> "sleeping", method |-> @.method, call |-> @.call,
                         wake |-> mb_now + rate_limit_delay]]
    /\ UNCHANGED mb_now
    /\ UNCHANGED <<engineVars, candVars, gatewayVars, databaseVars, concurrentVars, albumVars>>

\* the sleep is over: response.json() is returned; of a body that is no JSON it
\* raises a JSONDecodeError, which is a RequestException or not, by the version of
\* requests
WakeUp(t) ==
    /\ mb_threads[t].pc = "sleeping"
    /\ mb_now >= mb_threads[t].wake
    /\ LET http == mb_calls[mb_threads[t].call].http
           method == mb_threads[t].method
       IN  \E result \in IF http.kind = "ok"
                         THEN {ResultList(method, JsonBody(method, http))}
                         ELSE {ResultList(method, None), [raises |-> "JSONDecodeError"]} :
              mb_calls' = [mb_calls EXCEPT ![mb_threads[t].call].result = result]
    /\ mb_threads' = [mb_threads EXCEPT ![t] = Idle]
    /\ UNCHANGED mb_now
    /\ UNCHANGED <<engineVars, candVars, gatewayVars, databaseVars, concurrentVars, albumVars>>

\* a second passes
Second ==
    /\ mb_now < MaxNow
    /\ mb_now' = mb_now + 1
    /\ UNCHANGED <<mb_threads, mb_calls>>
    /\ UNCHANGED <<engineVars, candVars, gatewayVars, databaseVars, concurrentVars, albumVars>>

CatalogInit ==
    /\ mb_now = 0
    /\ mb_threads = [t \in Threads |-> Idle]
    /\ mb_calls = <<>>
    /\ ReqInit
    /\ ScoreOff
    /\ FilterOff
    /\ MergeOff
    /\ IntentOff
    /\ ProfileOff
    /\ CandOff
    /\ GatewayOff
    /\ DatabaseOff
    /\ ConcurrentOff
    /\ AlbumOff

CatalogNext ==
    \/ \E t \in Threads, m \in SearchMethods : Call(t, m)
    \/ \E t \in Threads, m \in SearchMethods : CallWithoutQuery(t, m)
    \/ \E t \in Threads, k \in RequestExceptions : RequestFails(t, k)
    \/ \E t \in Threads, h \in HttpOutcomes : RequestSucceeds(t, h)
    \/ \E t \in Threads : WakeUp(t)
    \/ Second

SpecCatalog == CatalogInit /\ [][CatalogNext]_vars

----------------------------------------------------------------------------
(* shared/database.py: wait_for_database and create_tables_safe            *)

\* the defaults of wait_for_database(max_retries=30, delay=2)
DefaultMaxRetries == 30

DefaultDelay == 2

\* max_retries of create_tables_safe
CreateMaxRetries == 5

\* the tables of Base.metadata
ModelTables ==
    {"artists", "albums", "tracks", "user_profiles", "recommendations", "listening_history"}

\* the database before the first call: empty, or the schema of an earlier release
InitialSchemas == {{}, {"artists", "albums", "tracks"}}

\* the arguments of the direct calls of wait_for_database
MaxRetries == 4

Delays == {1, 3}

\* the calls of create_tables_safe that return True
MaxRuns == 2

WaitState(max_retries, delay) ==
    [max_retries |-> max_retries, delay |-> delay, attempt |-> 0, slept |-> 0]

\* wait_for_database(max_retries, delay) is called
CallWait(max_retries, delay) ==
    /\ d_running = "none"
    /\ d_running' = "wait_for_database"
    /\ d_wait' = WaitState(max_retries, delay)
    /\ d_create' = None
    /\ d_result' = None
    /\ UNCHANGED <<d_schema, d_runs>>
    /\ UNCHANGED <<engineVars, candVars, gatewayVars, catalogVars, concurrentVars, albumVars>>

\* create_tables_safe() is called: its first attempt begins with wait_for_database()
CallCreate ==
    /\ d_running = "none"
    /\ d_runs < MaxRuns
    /\ d_running' = "create_tables_safe"
    /\ d_create' = [attempt |-> 0, slept |-> 0, phase |-> "waiting", logged |-> ""]
    /\ d_wait' = WaitState(DefaultMaxRetries, DefaultDelay)
    /\ d_result' = None
    /\ UNCHANGED <<d_schema, d_runs>>
    /\ UNCHANGED <<engineVars, candVars, gatewayVars, catalogVars, concurrentVars, albumVars>>

\* the loop of wait_for_database is running
Waiting ==
    \/ d_running = "wait_for_database"
    \/ d_running = "create_tables_safe" /\ d_create.phase = "waiting"

\* time.sleep(2 ** attempt)
Backoff(attempt) == <<1, 2, 4, 8, 16>>[attempt + 1]

\* "except Exception" of create_tables_safe: back off and try again, or raise
\* after the last attempt
AttemptFailed(exception) ==
    IF d_create.attempt < CreateMaxRetries - 1
    THEN /\ d_create' = [attempt |-> d_create.attempt + 1,
                         slept |-> d_create.slept + Backoff(d_create.attempt),
                         phase |-> "waiting",
                         logged |-> exception]
         /\ d_wait' = WaitState(DefaultMaxRetries, DefaultDelay)
         /\ UNCHANGED <<d_running, d_result>>
    ELSE /\ d_create' = [d_create EXCEPT !.phase = "raised", !.logged = exception]
         /\ d_running' = "none"
         /\ d_result' = [raises |-> exception]
         /\ UNCHANGED d_wait

\* engine.connect() and SELECT 1 succeed: return True
ConnectOK ==
    /\ Waiting
    /\ d_wait.attempt < d_wait.max_retries
    /\ IF d_running = "wait_for_database"
       THEN /\ d_running' = "none"
            /\ d_result' = [returns |-> TRUE]
            /\ UNCHANGED d_create
       ELSE /\ d_create' = [d_create EXCEPT !.phase = "checking"]
            /\ UNCHANGED <<d_running, d_result>>
    /\ UNCHANGED <<d_schema, d_wait, d_runs>>
    /\ UNCHANGED <<engineVars, candVars, gatewayVars, catalogVars, concurrentVars, albumVars>>

\* an OperationalError handler that sleeps without the loop counter advancing
ConnectOperationalErrorForever ==
    /\ Waiting
    /\ d_wait.attempt < d_wait.max_retries
    /\ d_wait' = [d_wait EXCEPT !.slept = d_wait.delay]
    /\ UNCHANGED <<d_schema, d_running, d_create, d_result, d_runs>>
    /\ UNCHANGED <<engineVars, candVars, gatewayVars, catalogVars, concurrentVars, albumVars>>

\* "except OperationalError": time.sleep(delay), next attempt
ConnectOperationalError ==
    /\ Waiting
    /\ d_wait.attempt < d_wait.max_retries
    /\ d_wait' = [d_wait EXCEPT !.attempt = @ + 1, !.slept = @ + d_wait.delay]
    /\ UNCHANGED <<d_schema, d_running, d_create, d_result, d_runs>>
    /\ UNCHANGED <<engineVars, candVars, gatewayVars, catalogVars, concurrentVars, albumVars>>

\* the attempt raises something that is no OperationalError: it leaves
\* wait_for_database
ConnectRaises ==
    /\ Waiting
    /\ d_wait.attempt < d_wait.max_retries
    /\ IF d_running = "wait_for_database"
       THEN /\ d_running' = "none"
            /\ d_result' = [raises |-> "Exception"]
            /\ UNCHANGED <<d_create, d_wait>>
       ELSE AttemptFailed("Exception")
    /\ UNCHANGED <<d_schema, d_runs>>
    /\ UNCHANGED <<engineVars, candVars, gatewayVars, catalogVars, concurrentVars, albumVars>>

\* the loop is over: return False; create_tables_safe raises "Database not available"
WaitExhausted ==
    /\ Waiting
    /\ d_wait.attempt >= d_wait.max_retries
    /\ IF d_running = "wait_for_database"
       THEN /\ d_running' = "none"
            /\ d_result' = [returns |-> FALSE]
            /\ UNCHANGED <<d_create, d_wait>>
       ELSE AttemptFailed("Database not available")
    /\ UNCHANGED <<d_schema, d_runs>>
    /\ UNCHANGED <<engineVars, candVars, gatewayVars, catalogVars, concurrentVars, albumVars>>

Checking == d_running = "create_tables_safe" /\ d_create.phase = "checking"

\* the table 'artists' is found: "Tables already exist, skipping creation"
TablesExist ==
    /\ Checking
    /\ "artists" \in d_schema
    /\ d_running' = "none"
    /\ d_result' = [returns |-> TRUE]
    /\ d_runs' = d_runs + 1
    /\ d_create' = [d_create EXCEPT !.phase = "skipped"]
    /\ UNCHANGED <<d_schema, d_wait>>
    /\ UNCHANGED <<engineVars, candVars, gatewayVars, catalogVars, concurrentVars, albumVars>>

\* create_all even when 'artists' was found, dropping what the models do not know
CreateAllAgain ==
    /\ Checking
    /\ d_schema' = IF "artists" \in d_schema THEN ModelTables \ {"listening_history"}
                   ELSE d_schema \cup ModelTables
    /\ d_running' = "none"
    /\ d_result' = [returns |-> TRUE]
    /\ d_runs' = d_runs + 1
    /\ d_create' = [d_create EXCEPT !.phase = "created"]
    /\ UNCHANGED d_wait
    /\ UNCHANGED <<engineVars, candVars, gatewayVars, catalogVars, concurrentVars, albumVars>>

\* Base.metadata.create_all(bind=engine): the missing tables are created
CreateAll ==
    /\ Checking
    /\ ~("artists" \in d_schema)
    /\ d_schema' = d_schema \cup ModelTables
    /\ d_running' = "none"
    /\ d_result' = [returns |-> TRUE]
    /\ d_runs' = d_runs + 1
    /\ d_create' = [d_create EXCEPT !.phase = "created"]
    /\ UNCHANGED d_wait
    /\ UNCHANGED <<engineVars, candVars, gatewayVars, catalogVars, concurrentVars, albumVars>>

\* the query for 'artists' or create_all raises: nothing is created
CheckRaises ==
    /\ Checking
    /\ AttemptFailed("ProgrammingError")
    /\ UNCHANGED <<d_schema, d_runs>>
    /\ UNCHANGED <<engineVars, candVars, gatewayVars, catalogVars, concurrentVars, albumVars>>

\* create_all has committed on its own connection, then leaving
\* "with engine.begin() as conn" raises
CreatedThenRaises ==
    /\ Checking
    /\ ~("artists" \in d_schema)
    /\ d_schema' = d_schema \cup ModelTables
    /\ AttemptFailed("OperationalError")
    /\ UNCHANGED d_runs
    /\ UNCHANGED <<engineVars, candVars, gatewayVars, catalogVars, concurrentVars, albumVars>>

DatabaseInit ==
    /\ d_schema \in InitialSchemas
    /\ d_running = "none"
    /\ d_wait = None
    /\ d_create = None
    /\ d_result = None
    /\ d_runs = 0
    /\ ReqInit
    /\ ScoreOff
    /\ FilterOff
    /\ MergeOff
    /\ IntentOff
    /\ ProfileOff
    /\ CandOff
    /\ GatewayOff
    /\ CatalogOff
    /\ ConcurrentOff
    /\ AlbumOff

\* the steps of a running wait_for_database
WaitStep == ConnectOK \/ ConnectOperationalError \/ ConnectRaises \/ WaitExhausted

DatabaseNext ==
    \/ \E n \in 0..MaxRetries, d \in Delays : CallWait(n, d)
    \/ CallCreate
    \/ WaitStep
    \/ TablesExist
    \/ CreateAll
    \/ CheckRaises
    \/ CreatedThenRaises

SpecDatabase == DatabaseInit /\ [][DatabaseNext]_vars

\* a running wait_for_database goes on: connection attempts and sleeps end
SpecDatabaseFair == SpecDatabase /\ WF_vars(WaitStep)

----------------------------------------------------------------------------
(* Intent extraction and strategy planning driven on their own: the first  *)
(* part of get_query_recommendations, lines 255-280.                       *)

\* queries of the tests and of the keyword tables, in several letter cases
ExampleQueries ==
    {"", "   ", "xyzabc", "music", "songs",
     "old school rap", "hip hop beats", "rock music", "ROCK MUSIC", "RoCk MuSiC",
     "rock rock rock", "metal heavy", "relaxing jazz", "electronic dance",
     "country ballads", "blues guitar", "jazz piano", "hip-hop rap",
     "hip-hop", "rock", "jazz", "pop", "electronic", "country", "reggae", "blues",
     "r&b", "metal", "HIP-HOP", "JAZZ", "Pop", "Reggae", "R&B", "METAL",
     "romantic", "Romantic", "upbeat", "tag:rock", "tag:jazz",
     "rock by abba abba", "rock pop jazz by a b c", "love songs from Queen"}

QueryWords == {"rap", "Rock", "swing", "sad", "by", "xyz"}

IntentQueries ==
    ExampleQueries \cup {a \o " " \o b : a \in QueryWords, b \in QueryWords}

IntentInit ==
    /\ i_pc = "ready"
    /\ i_query \in IntentQueries
    /\ i_intent = None
    /\ i_plan = None
    /\ ReqInit
    /\ ScoreOff
    /\ FilterOff
    /\ MergeOff
    /\ ProfileOff
    /\ SysOff

\* search_intent = self.extract_search_intent(query)
ExtractIntent ==
    /\ i_pc = "ready"
    /\ i_intent' = extract_search_intent(i_query)
    /\ i_pc' = "extracted"
    /\ UNCHANGED <<i_query, i_plan>>
    /\ UNCHANGED <<reqVars, scoreVars, filterVars, mergeVars, profileVars, sysVars>>

\* search_strategies, unique_strategies and the prefix the loop executes
PlanStrategies ==
    /\ i_pc = "extracted"
    /\ i_plan' = [search_strategies |-> PlannedStrategies(i_query, i_intent),
                  executed |-> ExecutedStrategies(i_query, i_intent)]
    /\ i_pc' = "planned"
    /\ UNCHANGED <<i_query, i_intent>>
    /\ UNCHANGED <<reqVars, scoreVars, filterVars, mergeVars, profileVars, sysVars>>

IntentNext == ExtractIntent \/ PlanStrategies

SpecIntent == IntentInit /\ [][IntentNext]_vars

----------------------------------------------------------------------------
(* The service with its user_profiles table: the profile endpoints and the *)
(* recommendation endpoints that read a profile.  Every request is served  *)
(* in one step; the catalog's answers are inputs of the step.              *)

\* json.dumps of a string: quotes and backslashes are escaped
RECURSIVE JsonEscapeFrom(_, _)
JsonEscapeFrom(s, i) ==
    IF i > Len(s) THEN ""
    ELSE (IF CharAt(s, i) = "\"" THEN "\\\""
          ELSE IF CharAt(s, i) = "\\" THEN "\\\\"
          ELSE CharAt(s, i))
         \o JsonEscapeFrom(s, i + 1)

RECURSIVE JsonItems(_)
JsonItems(list) ==
    IF Len(list) = 0 THEN ""
    ELSE "\"" \o JsonEscapeFrom(Head(list), 1) \o "\""
         \o (IF Len(list) > 1 THEN ", " ELSE "") \o JsonItems(Tail(list))

\* json.dumps(list of str)
JsonDumps(list) == "[" \o JsonItems(list) \o "]"

\* json.loads of an array of strings, read character by character:
\* mode "out" between strings, "in" inside one, "esc" after a backslash
RECURSIVE JsonScan(_, _, _, _, _)
JsonScan(text, i, mode, cur, acc) ==
    IF i > Len(text) THEN acc
    ELSE LET c == CharAt(text, i)
         IN  IF mode = "out"
             THEN JsonScan(text, i + 1, IF c = "\"" THEN "in" ELSE "out", "", acc)
             ELSE IF mode = "esc"
             THEN JsonScan(text, i + 1, "in", cur \o c, acc)
             ELSE IF c = "\\"
             THEN JsonScan(text, i + 1, "esc", cur, acc)
             ELSE IF c = "\""
             THEN JsonScan(text, i + 1, "out", "", Append(acc, cur))
             ELSE JsonScan(text, i + 1, "in", cur \o c, acc)

JsonLoads(text) == JsonScan(text, 1, "out", "", <<>>)

\* column or '[]'
OrEmptyList(column) == IF column = "" THEN "[]" ELSE column

\* the lists a request may post
PostGenres == {<<>>, <<"rock">>}

PostArtists == {<<>>, <<"a1", "say \"x\", y\\z">>}

\* profile.favorite_genres = json.dumps(favorite_genres), ...; db.commit()
PostProfileAppends(username, favorite_genres, favorite_artists) ==
    /\ db_profiles' = [db_profiles EXCEPT ![username] =
          [username |-> username,
           favorite_genres |->
              JsonDumps((IF db_profiles[username] = None THEN <<>>
                         ELSE JsonLoads(db_profiles[username].favorite_genres))
                        \o favorite_genres),
           favorite_artists |->
              JsonDumps((IF db_profiles[username] = None THEN <<>>
                         ELSE JsonLoads(db_profiles[username].favorite_artists))
                        \o favorite_artists)]]
    /\ last_post' = [last_post EXCEPT ![username] =
          [favorite_genres |-> favorite_genres, favorite_artists |-> favorite_artists]]
    /\ p_req' = [op |-> "post_profile", username |-> username]
    /\ p_resp' = [status |-> 200, message |-> "Profile updated for " \o username]
    /\ UNCHANGED db_recommendations
    /\ UNCHANGED <<reqVars, scoreVars, filterVars, mergeVars, intentVars, sysVars>>

\* POST /users/{username}/profile: the row is created or its two lists are replaced
PostProfile(username, favorite_genres, favorite_artists) ==
    /\ db_profiles' = [db_profiles EXCEPT ![username] =
          [username |-> username,
           favorite_genres |-> JsonDumps(favorite_genres),
           favorite_artists |-> JsonDumps(favorite_artists)]]
    /\ last_post' = [last_post EXCEPT ![username] =
          [favorite_genres |-> favorite_genres, favorite_artists |-> favorite_artists]]
    /\ p_req' = [op |-> "post_profile", username |-> username]
    /\ p_resp' = [status |-> 200, message |-> "Profile updated for " \o username]
    /\ UNCHANGED db_recommendations
    /\ UNCHANGED <<reqVars, scoreVars, filterVars, mergeVars, intentVars, sysVars>>

\* GET /users/{username}/profile
GetProfile(username) ==
    /\ p_req' = [op |-> "get_profile", username |-> username]
    /\ p_resp' =
          IF db_profiles[username] = None
          THEN [status |-> 404, detail |-> "User profile not found"]
          ELSE [status |-> 200,
                username |-> db_profiles[username].username,
                favorite_genres |->
                    JsonLoads(OrEmptyList(db_profiles[username].favorite_genres)),
                favorite_artists |->
                    JsonLoads(OrEmptyList(db_profiles[username].favorite_artists))]
    /\ UNCHANGED <<db_profiles, db_recommendations, last_post>>
    /\ UNCHANGED <<reqVars, scoreVars, filterVars, mergeVars, intentVars, sysVars>>

\* the operations of the endpoints that take a database session
DbOps == {"post_profile", "get_profile", "profile_recommendations", "query_recommendations"}

\* the database raises in the handler's query or in the commit of a POST:
\* except Exception -> HTTPException(500); the session is closed, nothing is written
RequestDbError(op, username) ==
    /\ p_req' = [op |-> op, username |-> username]
    /\ p_resp' = [status |-> 500]
    /\ UNCHANGED <<db_profiles, db_recommendations, last_post>>
    /\ UNCHANGED <<reqVars, scoreVars, filterVars, mergeVars, intentVars, sysVars>>

\* the profile as the engine reads it: json.loads(user_profile.favorite_x or '[]')
LoadedProfile(row) ==
    IF row = None THEN None
    ELSE [username |-> row.username,
          favorite_genres |-> JsonLoads(OrEmptyList(row.favorite_genres)),
          favorite_artists |-> JsonLoads(OrEmptyList(row.favorite_artists))]

\* what one catalog call does: it raises, it fails with a RequestException
\* (the client returns []), or it answers with recordings
RecordingsOf(outcome) == IF outcome.kind = "ok" THEN outcome.recordings ELSE <<>>

\* the catalog of one request: what get_artist_recordings and search_recordings do
CatalogWorlds ==
    {[artist |-> [kind |-> "ok", recordings |->
                    <<MkRecording("t2", "Rock You", "QUEEN", "a1", <<>>),
                      MkRecording("t1", "Love", "Queen", "a1", <<>>)>>],
      search |-> [kind |-> "ok", recordings |->
                    <<MkRecording("t3", "Rock Love", "queen", "a1", <<>>),
                      MkRecording("t2", "Rock You", "QUEEN", "a1", <<>>),
                      MkRecording("t4", "Blue", "Abba", "a2", <<>>)>>]],
     [artist |-> [kind |-> "raise"],
      search |-> [kind |-> "ok", recordings |->
                    <<MkRecording("t1", "Love", "Queen", "a1", <<[name |-> "rock"]>>)>>]],
     [artist |-> [kind |-> "failed"],
      search |-> [kind |-> "raise"]],
     [artist |-> [kind |-> "ok", recordings |->
                    <<MkRecording("t1", "Love", "Queen", "a1", <<>>)>>],
      search |-> [kind |-> "failed"]]}

\* the recommendations appended for the recordings[:5] of a favourite artist;
\* a recording without id or title ends the loop (except around the artist)
RECURSIVE ProfileArtistCandidates(_, _)
ProfileArtistCandidates(recordings, artist_id) ==
    IF Len(recordings) = 0 \/ RaisesKeyError(Head(recordings))
    THEN <<>>
    ELSE <<[track_id |-> Head(recordings).id,
            track_title |-> Head(recordings).title,
            artist_id |-> artist_id,
            artist_name |-> Get(ArtistInfo(Head(recordings)), "name", "Unknown"),
            score |-> 95,
            recommendation_type |-> "profile_favorite_artist"]>>
         \o ProfileArtistCandidates(Tail(recordings), artist_id)

\* for artist_id in favorite_artists[:3]
RECURSIVE FavoriteArtistsLoop(_, _)
FavoriteArtistsLoop(artist_ids, world) ==
    IF Len(artist_ids) = 0 THEN <<>>
    ELSE (IF world.artist.kind = "raise" THEN <<>>
          ELSE ProfileArtistCandidates(Take(RecordingsOf(world.artist), 5),
                                       Head(artist_ids)))
         \o FavoriteArtistsLoop(Tail(artist_ids), world)

\* the recommendations appended for the genre_recordings[:2] of one search
RECURSIVE ProfileGenreCandidates(_, _, _)
ProfileGenreCandidates(recordings, genre, profile) ==
    IF Len(recordings) = 0 \/ RaisesKeyError(Head(recordings))
    THEN <<>>
    ELSE <<[track_id |-> Head(recordings).id,
            track_title |-> Head(recordings).title,
            artist_id |-> Get(ArtistInfo(Head(recordings)), "id", ""),
            artist_name |-> Get(ArtistInfo(Head(recordings)), "name", "Unknown"),
            score |-> Max(calculate_relevance_score(Head(recordings),
                              extract_search_intent(genre), profile), 70),
            recommendation_type |-> "profile_genre"]>>
         \o ProfileGenreCandidates(Tail(recordings), genre, profile)

\* search_queries of a favourite genre
GenreSearchQueries(genre) == <<"tag:" \o genre, genre, "genre:" \o genre>>

\* for search_query in search_queries, from the recommendations so far: a raise
\* ends the genre, and so does len(recommendations) >= limit * 2 after a search
RECURSIVE GenreSearchLoop(_, _, _, _, _, _)
GenreSearchLoop(recs, queries, genre, world, profile, limit) ==
    IF Len(queries) = 0 \/ world.search.kind = "raise" THEN recs
    ELSE LET found == Take(RecordingsOf(world.search), 2)
             cands == ProfileGenreCandidates(found, genre, profile)
             now == recs \o cands
         IN  IF Len(cands) < Len(found) \/ Len(now) >= limit * 2
             THEN now
             ELSE GenreSearchLoop(now, Tail(queries), genre, world, profile, limit)

\* for genre in favorite_genres[:3]
RECURSIVE FavoriteGenresLoop(_, _, _, _, _)
FavoriteGenresLoop(recs, genres, world, profile, limit) ==
    IF Len(genres) = 0 THEN recs
    ELSE FavoriteGenresLoop(
             GenreSearchLoop(recs, GenreSearchQueries(Head(genres)), Head(genres),
                             world, profile, limit),
             Tail(genres), world, profile, limit)

\* "Remove duplicates": the first recommendation of each track is kept
UniqueRecommendations(recs) ==
    SelectSeq([i \in 1..Len(recs) |->
                  [rec |-> recs[i],
                   seen |-> \E j \in 1..(i - 1) : recs[j].track_id = recs[i].track_id]],
              LAMBDA e : ~e.seen)

\* EnhancedRecommendationEngine.get_profile_recommendations(user_profile, db, limit)
engine_get_profile_recommendations(row, limit, world) ==
    LET profile == LoadedProfile(row)
        by_artist == FavoriteArtistsLoop(Take(profile.favorite_artists, 3), world)
        all == FavoriteGenresLoop(by_artist, Take(profile.favorite_genres, 3), world,
                                  profile, limit)
        unique == UniqueRecommendations(all)
    IN  Take(SortByScoreDesc([i \in 1..Len(unique) |-> unique[i].rec]), limit)

\* the most rows the recommendations table holds
MaxRows == 2

ProfileRecommendationsWritesBack(username, limit, world) ==
    /\ db_profiles[username] # None
    /\ db_profiles' = [db_profiles EXCEPT ![username].favorite_genres =
          JsonDumps(Tail(JsonLoads(db_profiles[username].favorite_genres) \o <<"seen">>))]
    /\ p_req' = [op |-> "profile_recommendations", username |-> username]
    /\ p_resp' = [status |-> 200, recommendations |->
                    engine_get_profile_recommendations(db_profiles[username], limit, world)]
    /\ UNCHANGED <<db_recommendations, last_post>>
    /\ UNCHANGED <<reqVars, scoreVars, filterVars, mergeVars, intentVars, sysVars>>

\* GET /recommendations/profile/{username}: 404 without a profile; else the engine's
\* list is answered, and its rows are stored when the commit succeeds
ProfileRecommendations(username, limit, world) ==
    /\ p_req' = [op |-> "profile_recommendations", username |-> username]
    /\ IF db_profiles[username] = None
       THEN /\ p_resp' = [status |-> 404, detail |-> "User profile not found"]
            /\ UNCHANGED db_recommendations
       ELSE LET recs == engine_get_profile_recommendations(db_profiles[username], limit,
                                                           world)
            IN  /\ p_resp' = [status |-> 200, recommendations |-> recs]
                /\ \E commit_ok \in BOOLEAN :
                      /\ commit_ok => db_recommendations + Len(recs) <= MaxRows
                      /\ db_recommendations' =
                            IF commit_ok THEN db_recommendations + Len(recs)
                            ELSE db_recommendations
    /\ UNCHANGED <<db_profiles, last_post>>
    /\ UNCHANGED <<reqVars, scoreVars, filterVars, mergeVars, intentVars, sysVars>>

\* the queries and usernames of the query requests of SpecProfile
ProfileQueries == {"rock"}

QueryUsernames == {"alice", "guest"}

\* GET /recommendations/query?username=...: the profile is read when a username other
\* than guest is given, the strategies run in plan order, nothing is written
QueryRecommendations(query, limit, username, world) ==
    /\ p_req' = [op |-> "query_recommendations", username |-> username]
    /\ LET row == IF username # "" /\ username # "guest" THEN db_profiles[username]
                  ELSE None
           intent == extract_search_intent(query)
           strats == ExecutedStrategies(query, intent)
           responses == [i \in 1..Len(strats) |-> RecordingsOf(world.search)]
           recs == CollectFrom(1, [i \in 1..Len(strats) |-> i], strats, responses,
                               intent, LoadedProfile(row))
       IN  p_resp' = [status |-> 200,
                      recommendations |-> FinalRecommendations(recs, limit),
                      query_analyzed |-> extract_search_intent(query)]
    /\ UNCHANGED <<db_profiles, db_recommendations, last_post>>
    /\ UNCHANGED <<reqVars, scoreVars, filterVars, mergeVars, intentVars, sysVars>>

\* int(text[:4]) of a life-span date: the year, or -1 for a ValueError
Digits == <<"0", "1", "2", "3", "4", "5", "6", "7", "8", "9">>

DigitValue(c) == IF \E d \in 1..10 : Digits[d] = c
                 THEN (CHOOSE d \in 1..10 : Digits[d] = c) - 1
                 ELSE -1

RECURSIVE ParseDigits(_, _, _)
ParseDigits(text, i, acc) ==
    IF i > Len(text) THEN acc
    ELSE IF DigitValue(CharAt(text, i)) < 0 THEN -1
    ELSE ParseDigits(text, i + 1, acc * 10 + DigitValue(CharAt(text, i)))

YearOf(date) == IF Len(date) = 0 THEN -1 ELSE ParseDigits(SubSeq(date, 1, Min(4, Len(date))), 1, 0)

\* base_similarity of a similar artist, capped at 85
SimilarityScore(artist_name, primary_artist, artist) ==
    LET by_name == IF Contains(Lower(artist_name), Lower(artist.name))
                      \/ Contains(Lower(artist.name), Lower(artist_name))
                   THEN 15 ELSE 0
        by_country == IF Get(primary_artist, "country", "") # ""
                         /\ Get(artist, "country", "") # ""
                         /\ primary_artist.country = artist.country
                      THEN 10 ELSE 0
        primary_begin == Get(Get(primary_artist, "life_span", EmptyDict), "begin", "")
        artist_begin == Get(Get(artist, "life_span", EmptyDict), "begin", "")
        by_period == IF primary_begin # "" /\ artist_begin # ""
                        /\ YearOf(primary_begin) >= 0 /\ YearOf(artist_begin) >= 0
                        /\ YearOf(primary_begin) - YearOf(artist_begin) <= 10
                        /\ YearOf(artist_begin) - YearOf(primary_begin) <= 10
                     THEN 10 ELSE 0
    IN  Min(60 + by_name + by_country + by_period, 85)

\* the genres inferred from the tags of the primary artist's sample tracks
InferredGenres(sample_tracks) ==
    {genre_keywords[g].name : g \in
        {g \in 1..Len(genre_keywords) :
            \E t \in 1..Len(sample_tracks) :
                \E n \in 1..Len(TagNames(sample_tracks[t])) :
                    AnyKeywordIn(genre_keywords[g].keywords, TagNames(sample_tracks[t])[n])}}

\* the recommendations appended for the recordings of one similar artist
RECURSIVE SimilarArtistCandidates(_, _, _)
SimilarArtistCandidates(recordings, artist, score) ==
    IF Len(recordings) = 0 \/ RaisesKeyError(Head(recordings))
    THEN <<>>
    ELSE <<[track_id |-> Head(recordings).id,
            track_title |-> Head(recordings).title,
            artist_id |-> artist.id,
            artist_name |-> artist.name,
            score |-> score,
            recommendation_type |-> "enhanced_similar_artist"]>>
         \o SimilarArtistCandidates(Tail(recordings), artist, score)

\* for artist in unique_artists[:5]: an artist without id or name, or a raising
\* catalog call, is skipped
RECURSIVE SimilarArtistsLoop(_, _, _, _)
SimilarArtistsLoop(artists, artist_name, primary_artist, world) ==
    IF Len(artists) = 0 THEN <<>>
    ELSE LET artist == Head(artists)
         IN  (IF ~("id" \in DOMAIN artist) \/ ~("name" \in DOMAIN artist)
                 \/ world.recordings.kind = "raise"
              THEN <<>>
              ELSE SimilarArtistCandidates(
                       RecordingsOf(world.recordings), artist,
                       SimilarityScore(artist_name, primary_artist, artist)))
             \o SimilarArtistsLoop(Tail(artists), artist_name, primary_artist, world)

\* "Remove duplicates and the original artist": the first artist of each id is kept
UniqueArtists(similar_artists, primary_artist) ==
    LET id(a) == Get(a, "id", "<None>")
        kept == SelectSeq([i \in 1..Len(similar_artists) |->
                    [artist |-> similar_artists[i],
                     seen |-> id(similar_artists[i]) = id(primary_artist)
                              \/ \E j \in 1..(i - 1) :
                                    id(similar_artists[j]) = id(similar_artists[i])]],
                    LAMBDA e : ~e.seen)
    IN  [i \in 1..Len(kept) |-> kept[i].artist]

ArtistsOf(outcome) == IF outcome.kind = "ok" THEN outcome.artists ELSE <<>>

\* EnhancedRecommendationEngine.get_similar_artist_recommendations(artist_name, limit);
\* world.by_name answers the searches for artist_name, world.by_other every other
\* artist search (alike, so that the order of the inferred genres does not matter)
get_similar_artist_recommendations(artist_name, limit, world) ==
    IF Len(ArtistsOf(world.by_name)) = 0 THEN <<>>
    ELSE LET primary_artist == Head(ArtistsOf(world.by_name))
             inferred == IF Get(primary_artist, "id", "") # ""
                            /\ world.sample.kind # "raise"
                         THEN InferredGenres(Take(RecordingsOf(world.sample), 5))
                         ELSE {}
             others == 2 + Min(Cardinality(inferred), 2)
             similar_artists ==
                 ArtistsOf(world.by_name)
                 \o [i \in 1..(others * Len(ArtistsOf(world.by_other))) |->
                        ArtistsOf(world.by_other)[
                            ((i - 1) % Len(ArtistsOf(world.by_other))) + 1]]
             unique_artists == UniqueArtists(similar_artists, primary_artist)
         IN  Take(SortByScoreDesc(SimilarArtistsLoop(Take(unique_artists, 5), artist_name,
                                                     primary_artist, world)),
                  limit)

\* artists and catalogs of the similar-artist requests
SimilarWorlds ==
    {[by_name |-> [kind |-> "ok", artists |->
                     <<[id |-> "a1", name |-> "Queen", country |-> "GB",
                        life_span |-> [begin |-> "1970-06-27"]],
                       [id |-> "a3", name |-> "Queen Latifah", country |-> "US",
                        life_span |-> [begin |-> "1988"]]>>],
      by_other |-> [kind |-> "ok", artists |->
                     <<[id |-> "a2", name |-> "Abba", country |-> "SE",
                        life_span |-> [begin |-> "1972"]],
                       [id |-> "a1", name |-> "Queen", country |-> "GB"],
                       [name |-> "no id"]>>],
      sample |-> [kind |-> "ok", recordings |->
                     <<MkRecording("t1", "Love", "Queen", "a1", <<[name |-> "rock"]>>)>>],
      recordings |-> [kind |-> "ok", recordings |->
                     <<MkRecording("t4", "Blue", "Abba", "a2", <<>>)>>]],
     [by_name |-> [kind |-> "ok", artists |->
                     <<[id |-> "a1", name |-> "Queen", country |-> "GB"]>>],
      by_other |-> [kind |-> "raise"],
      sample |-> [kind |-> "raise"],
      recordings |-> [kind |-> "failed"]],
     [by_name |-> [kind |-> "failed"],
      by_other |-> [kind |-> "failed"],
      sample |-> [kind |-> "failed"],
      recordings |-> [kind |-> "failed"]]}

\* GET /recommendations/similar/{artist_name}: no database session
SimilarRecommendations(artist_name, limit, world) ==
    /\ p_req' = [op |-> "similar_recommendations", username |-> ""]
    /\ p_resp' = [status |-> 200, recommendations |->
                    get_similar_artist_recommendations(artist_name, limit, world)]
    /\ UNCHANGED <<db_profiles, db_recommendations, last_post>>
    /\ UNCHANGED <<reqVars, scoreVars, filterVars, mergeVars, intentVars, sysVars>>

\* limits of the requests of SpecProfile
ProfileLimits == {1, MaxLimit}

ProfileInit ==
    /\ ProfileOff
    /\ ReqInit
    /\ ScoreOff
    /\ FilterOff
    /\ MergeOff
    /\ IntentOff
    /\ SysOff

ProfileNext ==
    \/ \E u \in ProfileUsers, g \in PostGenres, a \in PostArtists : PostProfile(u, g, a)
    \/ \E u \in ProfileUsers : GetProfile(u)
    \/ \E op \in DbOps, u \in ProfileUsers : RequestDbError(op, u)
    \/ \E u \in ProfileUsers, l \in ProfileLimits, w \in CatalogWorlds :
          ProfileRecommendations(u, l, w)
    \/ \E q \in ProfileQueries, u \in QueryUsernames, w \in CatalogWorlds :
          QueryRecommendations(q, MaxLimit, u, w)
    \/ \E l \in ProfileLimits, w \in SimilarWorlds : SimilarRecommendations("queen", l, w)

SpecProfile == ProfileInit /\ [][ProfileNext]_vars

\* ---------------------------------------------------------------------------
\* Concurrent POST /users/{username}/profile requests
\* (recommendation_service.py, create_or_update_profile).  The handler is a
\* plain "def": the server runs each request in a worker thread with a session
\* of its own (get_db), so the query of one request and the commit of another
\* interleave.  user_profiles.username is unique (models.py).
\* ---------------------------------------------------------------------------
MaxRequests == 2

RequestIds == 1 .. MaxRequests

PostUsernames == {"alice", "bob"}

ConcurrentGenres == {<<"rock", "jazz">>, <<"electronic", "pop">>}

ConcurrentArtists == <<"artist-1">>

\* the table before the requests: empty, or alice's profile exists
InitialRows ==
    {{}, {[id |-> 1, username |-> "alice",
           favorite_genres |-> JsonDumps(<<"rock">>),
           favorite_artists |-> JsonDumps(<<>>)]}}

NoRequest == [pc |-> "none"]

RowsOf(username) == {row \in u_rows : row.username = username}

\* the request arrives with its body
ProfilePosted(r, username, favorite_genres) ==
    /\ u_req[r].pc = "none"
    /\ u_req' = [u_req EXCEPT ![r] =
                   [pc |-> "query", username |-> username,
                    favorite_genres |-> favorite_genres,
                    favorite_artists |-> ConcurrentArtists,
                    profile |-> None, status |-> 0]]
    /\ UNCHANGED u_rows
    /\ UNCHANGED <<engineVars, candVars, gatewayVars, catalogVars, databaseVars, albumVars>>

\* profile = db.query(UserProfile).filter(username == username).first()
ProfileQueried(r) ==
    /\ u_req[r].pc = "query"
    /\ u_req' = [u_req EXCEPT ![r].pc = "commit",
                              ![r].profile =
                                  IF RowsOf(u_req[r].username) = {} THEN None
                                  ELSE CHOOSE row \in RowsOf(u_req[r].username) : TRUE]
    /\ UNCHANGED u_rows
    /\ UNCHANGED <<engineVars, candVars, gatewayVars, catalogVars, databaseVars, albumVars>>

\* "if profile:" the row is updated, db.commit(), 200
ProfileUpdated(r) ==
    /\ u_req[r].pc = "commit"
    /\ u_req[r].profile # None
    /\ u_rows' = {IF row.id = u_req[r].profile.id
                  THEN [row EXCEPT !.favorite_genres = JsonDumps(u_req[r].favorite_genres),
                                   !.favorite_artists = JsonDumps(u_req[r].favorite_artists)]
                  ELSE row : row \in u_rows}
    /\ u_req' = [u_req EXCEPT ![r].pc = "done", ![r].status = 200]
    /\ UNCHANGED <<engineVars, candVars, gatewayVars, catalogVars, databaseVars, albumVars>>

\* "else:" db.add(UserProfile(...)), db.commit(): the INSERT is accepted
ProfileInserted(r) ==
    /\ u_req[r].pc = "commit"
    /\ u_req[r].profile = None
    /\ RowsOf(u_req[r].username) = {}
    /\ u_rows' = u_rows \cup
                   {[id |-> Cardinality(u_rows) + 1,
                     username |-> u_req[r].username,
                     favorite_genres |-> JsonDumps(u_req[r].favorite_genres),
                     favorite_artists |-> JsonDumps(u_req[r].favorite_artists)]}
    /\ u_req' = [u_req EXCEPT ![r].pc = "done", ![r].status = 200]
    /\ UNCHANGED <<engineVars, candVars, gatewayVars, catalogVars, databaseVars, albumVars>>

\* "else:" db.add(UserProfile(...)), db.commit(): another request committed a
\* row for the username since the query, the unique constraint rejects the
\* INSERT (IntegrityError), "except Exception" answers 500
ProfileInsertRejected(r) ==
    /\ u_req[r].pc = "commit"
    /\ u_req[r].profile = None
    /\ RowsOf(u_req[r].username) # {}
    /\ u_req' = [u_req EXCEPT ![r].pc = "done", ![r].status = 500]
    /\ UNCHANGED u_rows
    /\ UNCHANGED <<engineVars, candVars, gatewayVars, catalogVars, databaseVars, albumVars>>

ConcurrentInit ==
    /\ ReqInit /\ ScoreOff /\ FilterOff /\ MergeOff /\ IntentOff /\ ProfileOff
    /\ CandOff
    /\ GatewayOff
    /\ CatalogOff
    /\ DatabaseOff
    /\ AlbumOff
    /\ u_rows \in InitialRows
    /\ u_req = [r \in RequestIds |-> NoRequest]

ConcurrentNext ==
    \E r \in RequestIds :
        \/ \E username \in PostUsernames, favorite_genres \in ConcurrentGenres :
               ProfilePosted(r, username, favorite_genres)
        \/ ProfileQueried(r)
        \/ ProfileUpdated(r)
        \/ ProfileInserted(r)
        \/ ProfileInsertRejected(r)

SpecConcurrentPosts == ConcurrentInit /\ [][ConcurrentNext]_vars

\* ---------------------------------------------------------------------------
\* album_service.py, GET /albums/{album_id}: get_album.  An album that is not
\* in the database is fetched from the catalog and stored: artist and album in
\* one commit, the tracks in a second one.
\* ---------------------------------------------------------------------------
\* what the catalog holds: releases with their media and tracks
AlbumCatalog ==
    ("r1" :> [id |-> "r1", title |-> "One", artist |-> [id |-> "a1"],
              media |-> << <<[position |-> 1, recording |-> "t1"],
                             [position |-> 2, recording |-> "t2"]>> >>]) @@
    \* a compilation that holds a recording of r1 again
    ("r2" :> [id |-> "r2", title |-> "Two", artist |-> [id |-> "a1"],
              media |-> << <<[position |-> 1, recording |-> "t2"]>>,
                           <<[position |-> 1, recording |-> "t3"]>> >>]) @@
    \* one recording at two positions of the release
    ("r3" :> [id |-> "r3", title |-> "Three", artist |-> [id |-> "a2"],
              media |-> << <<[position |-> 1, recording |-> "t4"],
                             [position |-> 2, recording |-> "t4"]>> >>]) @@
    \* a release whose artist credit has no id
    ("r4" :> [id |-> "r4", title |-> "Four", artist |-> [name |-> "Various"],
              media |-> << <<[position |-> 1, recording |-> "t5"]>> >>])

AlbumIds == DOMAIN AlbumCatalog \cup {"r9"}

\* the outcome of the request to the catalog
ReleaseOutcomes == {"ok", "timeout"}

\* what the database does to this request: nothing, or it fails the commit of
\* the album, or it fails the commit of the tracks
DatabaseFaults == {"none", "album_commit", "track_commit"}

\* musicbrainz.get_release: the release, or None
get_release(album_id, http) ==
    IF http = "ok" /\ album_id \in DOMAIN AlbumCatalog THEN AlbumCatalog[album_id] ELSE None

RECURSIVE Flatten(_)
\* "for medium in release_data['media']: for track_data in medium.get('tracks', [])"
Flatten(media) ==
    IF media = <<>> THEN <<>> ELSE Head(media) \o Flatten(Tail(media))

RECURSIVE NewTracks(_, _, _)
\* the loop over the tracks: a Track is added to the session for every track
\* whose recording id has no committed row (the session does not autoflush, so
\* the query does not see the rows added earlier in the loop)
NewTracks(track_data, album_id, committed) ==
    IF track_data = <<>> THEN <<>>
    ELSE LET t == Head(track_data)
             rest == NewTracks(Tail(track_data), album_id, committed)
         IN  IF \E row \in committed : row.id = t.recording
             THEN rest
             ELSE <<[id |-> t.recording, album_id |-> album_id,
                     track_number |-> t.position]>> \o rest

\* two rows of one flush with the same primary key
HasDuplicateIds(rows) ==
    \E i, j \in 1..Len(rows) : i # j /\ rows[i].id = rows[j].id

RowSet(rows) == {rows[i] : i \in 1..Len(rows)}

\* the rows "db.query(Track).filter(Track.album_id == album_id)" returns; their
\* order among equal track numbers is the database's, so they are kept as a set
TracksOfAlbum(album_id, tracks) ==
    {[id |-> row.id, track_number |-> row.track_number] :
        row \in {t \in tracks : t.album_id = album_id}}

AlbumAnswer(album_id, fault, status, tracks) ==
    [album_id |-> album_id, fault |-> fault, status |-> status,
     tracks |-> IF status = 200 THEN TracksOfAlbum(album_id, tracks) ELSE {}]

\* the whole handler, with the outcome of the catalog request and the fault
\* of the database
GetAlbum(album_id, http, fault) ==
    LET release_data == get_release(album_id, http)
        new_tracks == NewTracks(Flatten(release_data.media), release_data.id, a_tracks)
    IN
    /\ IF \E album \in a_albums : album.id = album_id
       THEN \* the album is in the database: answered from the database
            /\ a_resp' = AlbumAnswer(album_id, "none", 200, a_tracks)
            /\ UNCHANGED <<a_artists, a_albums, a_tracks>>
       ELSE IF release_data = None
       THEN \* "Album not found"
            /\ a_resp' = AlbumAnswer(album_id, "none", 404, a_tracks)
            /\ UNCHANGED <<a_artists, a_albums, a_tracks>>
       ELSE IF ~("id" \in DOMAIN release_data.artist)
       THEN \* HTTPException(400) raised inside the try: "except Exception"
            \* rolls back and raises HTTPException(500)
            /\ a_resp' = AlbumAnswer(album_id, "none", 500, a_tracks)
            /\ UNCHANGED <<a_artists, a_albums, a_tracks>>
       ELSE IF fault = "album_commit"
       THEN \* the first db.commit() raises: rollback, 500
            /\ a_resp' = AlbumAnswer(album_id, fault, 500, a_tracks)
            /\ UNCHANGED <<a_artists, a_albums, a_tracks>>
       ELSE \* the first db.commit(): artist and album are stored
            /\ a_artists' = a_artists \cup {release_data.artist.id}
            /\ a_albums' = a_albums \cup
                             {[id |-> release_data.id, title |-> release_data.title,
                               artist_id |-> release_data.artist.id]}
            /\ IF new_tracks = <<>>
               THEN \* track_count = 0: no second commit
                    /\ a_resp' = AlbumAnswer(album_id, "none", 200, a_tracks)
                    /\ UNCHANGED a_tracks
               ELSE IF HasDuplicateIds(new_tracks) \/ fault = "track_commit"
               THEN \* the second db.commit() raises: rollback of the tracks, 500
                    /\ a_resp' = AlbumAnswer(album_id,
                                    IF HasDuplicateIds(new_tracks) THEN "none" ELSE fault,
                                    500, a_tracks)
                    /\ UNCHANGED a_tracks
               ELSE /\ a_tracks' = a_tracks \cup RowSet(new_tracks)
                    /\ a_resp' = AlbumAnswer(album_id, "none", 200,
                                             a_tracks \cup RowSet(new_tracks))
    /\ UNCHANGED <<engineVars, candVars, gatewayVars, catalogVars, databaseVars,
                   concurrentVars>>

AlbumInit ==
    /\ ReqInit /\ ScoreOff /\ FilterOff /\ MergeOff /\ IntentOff /\ ProfileOff
    /\ CandOff
    /\ GatewayOff
    /\ CatalogOff
    /\ DatabaseOff
    /\ ConcurrentOff
    /\ a_artists = {}
    /\ a_albums = {}
    /\ a_tracks = {}
    /\ a_resp = None

AlbumNext ==
    \E album_id \in AlbumIds, http \in ReleaseOutcomes, fault \in DatabaseFaults :
        GetAlbum(album_id, http, fault)

SpecAlbums == AlbumInit /\ [][AlbumNext]_vars

----------------------------------------------------------------------------
Range(seq) == {seq[i] : i \in 1..Len(seq)}

TrackIds(recs) == {recs[i].track_id : i \in 1..Len(recs)}

\* the highest score among the candidates of a track
BestScore(recs, track_id) ==
    CHOOSE b \in {recs[i].score : i \in {j \in 1..Len(recs) : recs[j].track_id = track_id}} :
        \A i \in 1..Len(recs) : recs[i].track_id = track_id => recs[i].score <= b

Answered200 == pc = "done" /\ response.status = 200

(* C1: for a limit in 1..MaxLimit and any catalog responses, the list the  *)
(* query path returns has at most `limit` entries and no track_id twice.   *)
C1_AtMostLimitAndUnique ==
    Answered200 =>
        /\ Len(response.recommendations) <= req.limit
        /\ \A i, j \in 1..Len(response.recommendations) :
              response.recommendations[i].track_id = response.recommendations[j].track_id
                  => i = j

\* more candidates than the limit were collected, one track among them twice
C1_Witness ==
    /\ Answered200
    /\ Len(recommendations) > req.limit
    /\ Cardinality(TrackIds(recommendations)) > req.limit
    /\ Cardinality(TrackIds(recommendations)) < Len(recommendations)
    /\ Len(response.recommendations) = req.limit

(* C2: the returned list is the reference: the candidates of all executed  *)
(* strategies grouped by track_id, for each track an entry with the highest *)
(* score seen, in non-increasing score order, cut to `limit` (so that no   *)
(* track left out scores higher than one returned).                        *)
C2_EqualsReference ==
    Answered200 =>
        LET out == response.recommendations
            all == recommendations
        IN  /\ Len(out) = Min(req.limit, Cardinality(TrackIds(all)))
            /\ \A i \in 1..Len(out) :
                  /\ out[i] \in Range(all)
                  /\ out[i].score = BestScore(all, out[i].track_id)
            /\ \A i, j \in 1..Len(out) : out[i].track_id = out[j].track_id => i = j
            /\ \A i, j \in 1..Len(out) : i < j => out[i].score >= out[j].score
            /\ \A t \in TrackIds(all) \ TrackIds(out) :
                  \A i \in 1..Len(out) : out[i].score >= BestScore(all, t)

\* a track was seen again with a higher score than before, and a track was cut off
C2_Witness ==
    /\ Answered200
    /\ \E i, j \in 1..Len(recommendations) :
          /\ i < j
          /\ recommendations[i].track_id = recommendations[j].track_id
          /\ recommendations[i].score < recommendations[j].score
    /\ Cardinality(TrackIds(recommendations)) > req.limit
    /\ Len(response.recommendations) >= 2

(* C3: every score is an integer in [0,100]; the title, artist, genre, mood *)
(* and profile contributions are capped at 25, 30, 25, 10 and 10 before    *)
(* they are summed; the weighted final score is in [0,100] too.            *)
C3_ScoreInRange ==
    s_pc \in {"scored", "rescored"} =>
        /\ s_out.capped.title \in 0..25
        /\ s_out.capped.artist \in 0..30
        /\ s_out.capped.genre \in 0..25
        /\ s_out.capped.mood \in 0..10
        /\ s_out.capped.profile \in 0..10
        /\ s_out.base \in 0..100
        /\ s_out.final \in 0..100
        /\ s_out.base <= s_out.capped.title + s_out.capped.artist + s_out.capped.genre
                            + s_out.capped.mood + s_out.capped.profile

\* a candidate whose title, artist, genre, mood and profile sub-scores all
\* exceed their caps has been scored with a weight below 1
C3_Witness ==
    /\ s_pc = "scored"
    /\ s_out.sub.title > 25 /\ s_out.sub.artist > 30 /\ s_out.sub.genre > 25
    /\ s_out.sub.mood > 10 /\ s_out.sub.profile > 10
    /\ s_in.weight < 10

(* C4: adding an occurrence of a query keyword to the title or the artist  *)
(* name of a candidate never lowers its score, also when the title equalled *)
(* a keyword before.                                                       *)
C4_Monotonic ==
    s_pc = "rescored" => s_out.final >= s_prev.final

ItemsOfArtist(recs, artist_name) ==
    {recs[i] : i \in {j \in 1..Len(recs) : Lower(recs[j].artist_name) = Lower(artist_name)}}

(* C5: with maxPerArtist = k the diversity filter returns, for each artist *)
(* name compared case-insensitively, min(k, that artist's items) items of  *)
(* the input, none scoring lower than an item of the artist it left out;   *)
(* with k = 1 no two returned items have the same artist name.             *)
C5_TopKPerArtist ==
    f_pc = "filtered" =>
        /\ Range(f_out) \subseteq Range(f_in.recs)
        /\ \A i, j \in 1..Len(f_out) : f_out[i] = f_out[j] => i = j
        /\ \A a \in FilterArtists :
              LET given == ItemsOfArtist(f_in.recs, a)
                  kept == ItemsOfArtist(f_out, a)
              IN  /\ Cardinality(kept) = Min(f_in.max_per_artist, Cardinality(given))
                  /\ \A x \in kept, y \in given \ kept : x.score >= y.score

\* one artist, spelled in two cases, had more items than the cap, the best not first
C5_Witness ==
    /\ f_pc = "filtered"
    /\ \E i, j \in 1..Len(f_in.recs) :
          /\ i < j
          /\ f_in.recs[i].artist_name # f_in.recs[j].artist_name
          /\ Lower(f_in.recs[i].artist_name) = Lower(f_in.recs[j].artist_name)
          /\ f_in.recs[i].score < f_in.recs[j].score
    /\ Len(f_out) < Len(f_in.recs)
    /\ Len(f_out) >= 2

ArtistCount(recs, artist_name) ==
    Cardinality({i \in 1..Len(recs) : Lower(recs[i].artist_name) = Lower(artist_name)})

ArtistNames(recs) == {Lower(recs[i].artist_name) : i \in 1..Len(recs)}

(* C6: no artist appears more than twice in a returned list, and an artist *)
(* appears twice only when a cap of 1 leaves the list short of the limit,  *)
(* that is when the candidates name fewer artists than the limit.          *)
C6_PerArtistCap ==
    Answered200 =>
        LET out == response.recommendations
        IN  /\ \A i \in 1..Len(out) : ArtistCount(out, out[i].artist_name) <= 2
            /\ (\E i \in 1..Len(out) : ArtistCount(out, out[i].artist_name) = 2)
                  => Cardinality(ArtistNames(recommendations)) < req.limit

FailedKinds == {"request_exception", "raised"}

CandidatesOf(k) ==
    {i \in 1..Len(recommendations) :
        recommendations[i].search_strategy = strategies[k].query}

(* C7: when the catalog search of a strategy fails, that strategy adds no  *)
(* candidate, every planned strategy is still executed, each recording a   *)
(* successful strategy returned is a candidate (and is returned unless the *)
(* list is full of entries scoring at least as high), and the answer is 200.*)
C7_FailedStrategyIgnored ==
    (pc = "done" /\ \E k \in 1..Len(outcomes) : outcomes[k].kind \in FailedKinds) =>
        /\ response.status = 200
        /\ Len(outcomes) = Len(strategies)
        /\ \A k \in 1..Len(outcomes) :
              /\ outcomes[k].kind \in FailedKinds => CandidatesOf(k) = {}
              /\ outcomes[k].kind = "ok" =>
                    \A n \in 1..Len(outcomes[k].recordings) :
                        \E i \in CandidatesOf(k) :
                            /\ recommendations[i].track_id = outcomes[k].recordings[n].id
                            /\ \/ recommendations[i].track_id
                                      \in TrackIds(response.recommendations)
                               \/ /\ Len(response.recommendations) = req.limit
                                  /\ \A m \in 1..req.limit :
                                        response.recommendations[m].score
                                            >= recommendations[i].score

\* of three strategies the first and the third failed, each in its way, and the
\* second returned recordings, of which the limit let one through
C7_Witness ==
    /\ pc = "done"
    /\ Len(outcomes) = 3
    /\ outcomes[1].kind = "request_exception"
    /\ outcomes[2].kind = "ok"
    /\ outcomes[3].kind = "raised"
    /\ Len(outcomes[2].recordings) = 2
    /\ Len(response.recommendations) = 1

\* the global deadline of a request, in seconds
Deadline == 8

(* C8: a request never waits for the catalog beyond the global deadline:   *)
(* once the deadline has passed no catalog call is still awaited.          *)
C8_NoWaitPastDeadline ==
    elapsed > Deadline => pc # "in_call"

(* C9: a query that is empty after trimming is answered 400, and neither   *)
(* intent extraction nor a catalog search is done for it.                  *)
C9_EmptyQueryRejected ==
    (pc # "idle" /\ Len(Split(req.query)) = 0) =>
        /\ intent_calls = 0
        /\ Len(outcomes) = 0
        /\ pc = "done" => response.status = 400

(* C10: a request with a non-empty query is never answered 500; an         *)
(* internal error gives 200 with no recommendations and an error field.    *)
C10_Never500 ==
    (pc = "done" /\ Len(Split(req.query)) > 0) => response.status = 200

GenrePriority ==
    <<"hip-hop", "rock", "jazz", "pop", "electronic", "country", "reggae", "blues",
      "r&b", "metal">>

CanonicalQueries ==
    {[query |-> "old school rap", genre |-> "hip-hop"],
     [query |-> "hip hop beats", genre |-> "hip-hop"],
     [query |-> "ROCK MUSIC", genre |-> "rock"],
     [query |-> "metal heavy", genre |-> "metal"],
     [query |-> "HIP-HOP", genre |-> "hip-hop"],
     [query |-> "JAZZ", genre |-> "jazz"],
     [query |-> "Pop", genre |-> "pop"],
     [query |-> "Reggae", genre |-> "reggae"],
     [query |-> "R&B", genre |-> "r&b"],
     [query |-> "METAL", genre |-> "metal"]}
    \cup {[query |-> GenrePriority[i], genre |-> GenrePriority[i]] :
             i \in 1..Len(GenrePriority)}

(* C12: a query that holds only a canonical keyword of a genre of the      *)
(* priority list, in any letter case, is detected as that genre.           *)
C12_CanonicalKeywordDetected ==
    \A c \in CanonicalQueries :
        (i_pc \in {"extracted", "planned"} /\ i_query = c.query) =>
            c.genre \in Range(i_intent.genres)

\* the genres of the priority list with a keyword in the lower-cased query
MatchingGenres(query) ==
    SelectSeq(GenrePriority,
              LAMBDA g : \E k \in Range(KeywordsOf(genre_keywords, g)) :
                            Contains(k, Lower(query)))

(* C13: at most one genre is detected, and it is the first genre of the    *)
(* priority order that has a keyword in the query.                         *)
C13_FirstGenreInPriorityOrder ==
    i_pc \in {"extracted", "planned"} =>
        /\ Len(i_intent.genres) <= 1
        /\ MatchingGenres(i_query) # <<>> =>
              i_intent.genres = <<Head(MatchingGenres(i_query))>>

\* no keyword of the genre or mood tables occurs in the query
UnknownQuery(query) ==
    /\ \A i \in 1..Len(genre_keywords) :
          \A k \in Range(genre_keywords[i].keywords) : ~Contains(k, Lower(query))
    /\ \A i \in 1..Len(mood_keywords) :
          \A k \in Range(mood_keywords[i].keywords) : ~Contains(k, Lower(query))

(* C14: intent extraction yields a result for every query, and for an      *)
(* empty, whitespace-only or unknown query it has no detected genre and an *)
(* empty keyword list.                                                     *)
C14_UnknownQueryEmptyIntent ==
    (i_pc \in {"extracted", "planned"} /\ UnknownQuery(i_query)) =>
        /\ i_intent.genres = <<>>
        /\ i_intent.keywords = <<>>

(* C15: the executed strategies are in non-increasing weight order, no two *)
(* have the same query string, and of planned strategies with the same     *)
(* query string the first one is kept, with its weight.                    *)
C15_PlanOrderedAndUnique ==
    i_pc = "planned" =>
        LET ex == i_plan.executed
            pl == i_plan.search_strategies
        IN  /\ \A i, j \in 1..Len(ex) : i < j =>
                  /\ ex[i].weight >= ex[j].weight
                  /\ ex[i].query # ex[j].query
            /\ \A i \in 1..Len(ex) :
                  \E j \in 1..Len(pl) :
                      /\ pl[j] = ex[i]
                      /\ \A k \in 1..(j - 1) : pl[k].query # ex[i].query
            /\ Len(ex) <= 5
            /\ \A j \in 1..Len(pl) :
                  (\E i \in 1..Len(ex) : ex[i].query = pl[j].query)
                  \/ Len(ex) = 5

C15_Witness ==
    /\ i_pc = "planned"
    /\ \E j, k \in 1..Len(i_plan.search_strategies) :
          /\ j < k
          /\ i_plan.search_strategies[j].query = i_plan.search_strategies[k].query
          /\ i_plan.search_strategies[j].weight > i_plan.search_strategies[k].weight
          /\ i_plan.executed = <<i_plan.search_strategies[j]>>

(* C16: the plan holds the direct strategy (the raw query, weight 1.0) and *)
(* it is the last element of the strategy list.                            *)
C16_DirectFallbackLast ==
    i_pc = "planned" =>
        /\ Len(i_plan.executed) > 0
        /\ i_plan.executed[Len(i_plan.executed)] = [query |-> i_query, weight |-> 10]

(* C17: a profile-recommendation request for a username without a stored   *)
(* profile, or whose profile has no favourite genres and no favourite      *)
(* artists, is answered 200 with an empty recommendations list and a       *)
(* message (the database itself not raising).                              *)
NoPreferences(row) ==
    \/ row = None
    \/ /\ LoadedProfile(row).favorite_genres = <<>>
       /\ LoadedProfile(row).favorite_artists = <<>>

C17_NoPreferencesAnswerEmptyWithMessage ==
    (/\ p_req # None
     /\ p_req.op = "profile_recommendations"
     /\ p_resp.status # 500
     /\ NoPreferences(db_profiles[p_req.username]))
    => /\ p_resp.status = 200
       /\ p_resp.recommendations = <<>>
       /\ "message" \in DOMAIN p_resp

(* C18: every recommendation of a profile-recommendation answer has the    *)
(* recommendation_type "profile_based".                                    *)
C18_ProfileBasedType ==
    (/\ p_req # None
     /\ p_req.op = "profile_recommendations"
     /\ p_resp.status = 200)
    => \A i \in 1..Len(p_resp.recommendations) :
           p_resp.recommendations[i].recommendation_type = "profile_based"

(* C19: a recommendation request (query with a username, similar-artist,   *)
(* profile), answered or failed, leaves every stored profile as it was.    *)
RecommendationOps ==
    {"query_recommendations", "similar_recommendations", "profile_recommendations"}

C19_RecommendationRequestsKeepProfiles ==
    [][(p_req' # None /\ p_req'.op \in RecommendationOps)
          => db_profiles' = db_profiles]_vars

C19_Witness ==
    /\ p_req # None
    /\ p_req.op = "profile_recommendations"
    /\ p_resp.status = 200
    /\ Len(p_resp.recommendations) > 0
    /\ db_recommendations > 0
    /\ db_profiles[p_req.username] # None
    /\ LoadedProfile(db_profiles[p_req.username]).favorite_genres = <<"rock">>

(* C20: a profile read that the database serves returns exactly the two    *)
(* lists of the last accepted POST for that username: the JSON round trip  *)
(* preserves them and an update replaces the earlier lists.                *)
C20_GetReturnsLastPost ==
    (/\ p_req # None
     /\ p_req.op = "get_profile"
     /\ p_resp.status # 500
     /\ last_post[p_req.username] # None)
    => /\ p_resp.status = 200
       /\ p_resp.username = p_req.username
       /\ p_resp.favorite_genres = last_post[p_req.username].favorite_genres
       /\ p_resp.favorite_artists = last_post[p_req.username].favorite_artists

C20_Witness ==
    /\ p_req # None
    /\ p_req.op = "get_profile"
    /\ p_resp.status = 200
    /\ p_resp.favorite_genres = <<"rock">>
    /\ Len(p_resp.favorite_artists) = 2
    /\ p_resp.favorite_artists[2] = "say \"x\", y\\z"

\* the strategies, the intent and the recordings of the request of SpecCandidates
CandIntent == extract_search_intent(c_in.query)

CandStrategies == ExecutedStrategies(c_in.query, CandIntent)

CandPositions ==
    {kn \in (1..Len(c_in.responses)) \X (1..MaxCand + 1) :
        kn[2] <= Len(c_in.responses[kn[1]])}

\* the candidates that strategy k gave for track_id
CandidatesFor(k, track_id) ==
    {i \in 1..Len(c_out.candidates) :
        /\ c_out.candidates[i].track_id = track_id
        /\ c_out.candidates[i].search_strategy = CandStrategies[k].query}

(* C26: a recording that lacks a field is skipped alone: every complete    *)
(* recording of every strategy response, before or after it, is a          *)
(* candidate.                                                              *)
C26_OnlyThatCandidateSkipped ==
    c_pc = "done" =>
        \A kn \in CandPositions :
            LET recording == c_in.responses[kn[1]][kn[2]]
            IN  ~RaisesKeyError(recording)
                    => CandidatesFor(kn[1], recording.id) # {}

\* the sub-scores of the recording at position kn of the responses
CandSubScores(kn) == SubScores(c_in.responses[kn[1]][kn[2]], CandIntent, c_in.profile)

\* the loop of strategy kn[1] reaches the recording at kn[2]
CandReached(kn) ==
    \A m \in 1..kn[2] : ~RaisesKeyError(c_in.responses[kn[1]][m])

PoorMatch(sub) == sub.title = 0 /\ sub.artist = 0 /\ sub.genre = 0

(* C30: a recording whose title, artist and genre sub-scores are all zero  *)
(* scores exactly 0 whatever its mood and profile sub-scores (capped, they *)
(* sum to at most 20), and it is still a candidate, returned unless the    *)
(* list is full.                                                           *)
C30_PoorMatchScoresZeroAndIsKept ==
    c_pc = "done" =>
        \A kn \in CandPositions :
            (CandReached(kn) /\ PoorMatch(CandSubScores(kn))) =>
                LET recording == c_in.responses[kn[1]][kn[2]]
                    capped == Caps(CandSubScores(kn))
                IN  /\ capped.mood + capped.profile <= 20
                    /\ calculate_relevance_score(recording, CandIntent, c_in.profile) = 0
                    /\ CandidatesFor(kn[1], recording.id) # {}
                    /\ \A i \in CandidatesFor(kn[1], recording.id) :
                          c_out.candidates[i].score = 0
                    /\ \/ recording.id \in TrackIds(c_out.final)
                       \/ Len(c_out.final) = c_in.limit

\* a returned track of score 0 whose mood and profile sub-scores both exceed
\* their caps
C30_Witness ==
    /\ c_pc = "done"
    /\ \E kn \in CandPositions :
          /\ CandReached(kn)
          /\ PoorMatch(CandSubScores(kn))
          /\ CandSubScores(kn).mood > 10
          /\ CandSubScores(kn).profile > 10
          /\ \E i \in 1..Len(c_out.final) :
                /\ c_out.final[i].track_id = c_in.responses[kn[1]][kn[2]].id
                /\ c_out.final[i].score = 0

(* C27: within one query request a catalog search is only started while    *)
(* fewer than 2 x limit candidates have been collected.                    *)
C27_SoftTargetStopsStrategies ==
    pc = "in_call" => Len(recommendations) < 2 * req.limit

(* C21: the gateway answers with the backend's error status (400, 404); it *)
(* answers 503 only when the backend cannot be reached, 504 only on a      *)
(* timeout, and never 500.                                                 *)
C21_BackendStatusPropagated ==
    \A i \in 1..Len(g_log) :
        /\ (g_log[i].backend.kind = "status" /\ g_log[i].backend.status \in {400, 404})
              => g_log[i].status = g_log[i].backend.status
        /\ g_log[i].status = 503 => g_log[i].backend.kind = "connect_error"
        /\ g_log[i].status = 504 => g_log[i].backend.kind = "timeout"
        /\ g_log[i].status # 500

(* C22: a search method whose HTTP request times out or is answered with   *)
(* an error status returns an empty list and raises nothing, and a call    *)
(* answered 200, whatever failed before it, returns the items of its       *)
(* response.                                                               *)
C22_FailuresReturnEmptyAndDoNotStick ==
    \A i \in 1..Len(mb_calls) :
        mb_calls[i].result # None =>
            /\ mb_calls[i].http.kind \in RequestExceptions
                  => mb_calls[i].result = [returns |-> <<>>]
            /\ mb_calls[i].http.kind = "ok"
                  => mb_calls[i].result =
                        [returns |-> IF mb_calls[i].http.keyed
                                     THEN mb_calls[i].http.items ELSE <<>>]

\* a call that timed out or was answered 429, then a call that returns two items
C22_Witness ==
    /\ Len(mb_calls) = 2
    /\ mb_calls[1].http # None /\ mb_calls[1].http.kind \in RequestExceptions
    /\ mb_calls[1].result = [returns |-> <<>>]
    /\ mb_calls[2].http # None /\ mb_calls[2].http.kind = "ok"
    /\ mb_calls[2].result # None
    /\ Len(mb_calls[2].result.returns) = 2
    /\ mb_calls[2].start >= mb_calls[1].start

(* C23: any two HTTP requests of the instance start at least               *)
(* rate_limit_delay apart, whether the earlier one succeeded or failed and *)
(* whichever threads sent them.                                            *)
C23_RequestsOneDelayApart ==
    \A i, j \in 1..Len(mb_calls) :
        (i < j /\ mb_calls[i].start >= 0 /\ mb_calls[j].start >= 0)
            => mb_calls[j].start - mb_calls[i].start >= rate_limit_delay

\* a direct call of wait_for_database has returned or raised
WaitFinished == d_running = "none" /\ d_result # None /\ d_create = None

(* C24: wait_for_database(max_retries, delay) makes at most max_retries    *)
(* connection attempts and sleeps `delay` after each failed one; it        *)
(* returns True at the first attempt that succeeds, False when all         *)
(* max_retries attempts failed with a connection error, and it always      *)
(* terminates.                                                             *)
C24_WaitTerminates ==
    /\ [](d_running = "wait_for_database" \/ WaitFinished =>
            /\ d_wait.attempt <= d_wait.max_retries
            /\ d_wait.slept = d_wait.attempt * d_wait.delay
            /\ (WaitFinished /\ d_result = [returns |-> TRUE])
                  => d_wait.attempt < d_wait.max_retries
            /\ (WaitFinished /\ d_result = [returns |-> FALSE])
                  => d_wait.attempt = d_wait.max_retries
            /\ (WaitFinished /\ d_wait.attempt = d_wait.max_retries)
                  => d_result = [returns |-> FALSE])
    /\ (d_running = "wait_for_database" ~> d_running = "none")

\* three attempts failed, the fourth succeeded: True after three sleeps
C24_Witness ==
    /\ WaitFinished
    /\ d_result = [returns |-> TRUE]
    /\ d_wait.max_retries = 4
    /\ d_wait.attempt = 3
    /\ d_wait.slept = 3 * d_wait.delay

(* C25: once create_tables_safe has returned True, a later run creates and *)
(* alters nothing, and when it returns it returns True on finding the      *)
(* tables.                                                                 *)
C25_CreateTablesIdempotent ==
    [][d_runs >= 1 =>
          /\ d_schema' = d_schema
          /\ (d_running = "create_tables_safe" /\ d_running' = "none"
                /\ "returns" \in DOMAIN d_result')
                => (d_result' = [returns |-> TRUE] /\ d_create'.phase = "skipped")]_vars

\* the first run created the tables, the second found them
C25_Witness ==
    /\ d_runs = 2
    /\ d_running = "none"
    /\ d_result = [returns |-> TRUE]
    /\ d_create # None /\ d_create.phase = "skipped"
    /\ d_schema = ModelTables

PostsFor(username) ==
    {r \in RequestIds : u_req[r].pc # "none" /\ u_req[r].username = username}

\* C28: for any interleaving of concurrent POST /users/{u}/profile requests
\* for one username, two first-time requests included, every request answers
\* 200, and once they are over exactly one row exists for u, holding the lists
\* of one of the requests.
C28_ConcurrentPostsAllAnswer200 ==
    /\ \A r \in RequestIds : u_req[r].pc = "done" => u_req[r].status = 200
    /\ \A username \in PostUsernames :
           (/\ PostsFor(username) # {}
            /\ \A r \in PostsFor(username) : u_req[r].pc = "done")
           => /\ Cardinality(RowsOf(username)) = 1
              /\ \E r \in PostsFor(username) : \A row \in RowsOf(username) :
                     /\ JsonLoads(row.favorite_genres) = u_req[r].favorite_genres
                     /\ JsonLoads(row.favorite_artists) = u_req[r].favorite_artists

\* the recordings the catalog reports for a release
ReportedTracks(album_id) ==
    {t.recording : t \in RowSet(Flatten(AlbumCatalog[album_id].media))}

StoredTracks(album_id) == {row.id : row \in {t \in a_tracks : t.album_id = album_id}}

\* C29: GET /albums/{album_id} stores a fetched album atomically with its
\* tracks: a request that fails to save answers with an error and leaves
\* neither the album nor its tracks, every stored album has all the tracks the
\* catalog reported, and a GET answered 200 returns the full track list.
C29_AlbumStoredWithItsTracks ==
    /\ \A album \in a_albums : ReportedTracks(album.id) \subseteq StoredTracks(album.id)
    /\ a_resp # None =>
          /\ a_resp.status >= 400 =>
                /\ ~(\E album \in a_albums : album.id = a_resp.album_id)
                /\ StoredTracks(a_resp.album_id) = {}
          /\ a_resp.status = 200 =>
                {t.id : t \in a_resp.tracks} = ReportedTracks(a_resp.album_id)

====
